---- MODULE Spec2Model ----
(***************************************************************************)
(* Phase tracking of sooahleex/cline.                                      *)
(*                                                                         *)
(* Spec      : the PhaseTracker of the planning module, the tracker with   *)
(*             retry, force-advance, skip, reset and replace.  Its state   *)
(*             is the list of PhaseStates and the cursor; the operations   *)
(*             register, replace, complete, advance, retry, force-advance, *)
(*             skip and reset are actions, callable in any state, as the   *)
(*             class allows.                                               *)
(* SpecRetry : the same tracker under the operations one phase goes        *)
(*             through when the completion handler drives it, with the     *)
(*             start checkpoint recorded for the current phase.            *)
(* SpecLegacy: the PhaseTracker of the assistant-message module, the       *)
(*             older tracker with subtasks and moveToNextPhase.            *)
(*                                                                         *)
(* Task ids stay empty (updateTaskIdPhase is not exercised) and the        *)
(* checkpoint file written by saveCheckpoint is not part of the state of   *)
(* these two specifications.                                               *)
(***************************************************************************)
EXTENDS Integers, Sequences, FiniteSets, TLC

(***************************************************************************)
(* Bounds of the model.                                                    *)
(***************************************************************************)
\* longest phaseStates list explored (the plan phase included)
MaxPhaseStates == 3
\* largest phase number a parsed plan carries (numbers start at 0)
MaxPhaseIdx == 1
\* most retries the PhaseStates of the tracker record together
MaxRetries == 3
\* most saveCheckpoint calls of the older tracker under way at once
MaxSavers == 2
\* phases an ImprovedPhaseTracker holds at most, the plan phase included
MaxImprovedPhases == 4
\* phases in a restored checkpoint at most
MaxRestoredPhases == 3
\* calls of executeParallel() at most
MaxRuns == 2
\* <phase>, <subtask> or '### Phase' blocks in a parsed document at most
MaxBlocks == 3
\* <phase> blocks, and '### Phase' sections, in a document given to parsePlanFromOutput at most
MaxPlanBlocks == 1
\* matches of one pattern in a document given to the older parsePlanFromOutput at most
MaxMatches == 2
\* messages in a conversation history at most
MaxMessages == 6
\* words in one message at most
MaxTokens == 2
\* largest token budget explored
MaxAllowedTokens == 3
\* requirement items in one list at most
MaxRequirements == 2
\* phases given to reinforcePhaseRequirements at most
MaxRequirementPhases == 2
\* phases the PhaseTracker with execution modes holds at most, plan phase included
MaxModedPhases == 4
\* calls of its executeAll() at most
MaxModedRuns == 1
\* phases each tracker behind the adapter holds at most, plan phase included
MaxAdapterPhases == 3
\* largest phase number of a plan handed to the adapter
MaxAdapterIdx == 2
\* subtasks of a phase handed to the adapter at most
MaxAdapterSubtasks == 1
\* processes calling createSnapshot for one task
MaxCallers == 2

(***************************************************************************)
(* Program constants.                                                      *)
(***************************************************************************)
PHASE_RETRY_LIMIT == 2

Pending == "pending"
InProgress == "in-progress"
Completed == "completed"
Skipped == "skipped"
Failed == "failed"
PhaseStatus == {Pending, InProgress, Completed, Skipped, Failed}

\* an optional field that holds nothing
Undefined == "undefined"
\* the value of Date.now(): only its presence is tracked
Stamped == "stamped"
\* a checkpoint hash handed in by the caller
SomeHash == "hash"

Terminal == {Completed, Skipped, Failed}

\* a path that names no file
Absent == <<[absent |-> TRUE]>>
\* fromCheckpoint() has not been called since the last operation
NotLoaded == [kind |-> "not-loaded"]
\* fromCheckpoint() returned undefined
NotFound == [kind |-> "not-found"]

VARIABLES
    phaseStates,        \* PhaseTracker.phaseStates
    currentPhaseIndex,  \* PhaseTracker.currentPhaseIndex
    lastOp,             \* history: the operation executed last
    lastResult,         \* history: "ok", "throw" (the call threw) or "noop" (early return)
    revived,            \* history: positions the last operation took from a terminal status to Pending
    legacyPhaseStates,        \* assistant-message PhaseTracker.phaseStates
    legacyCurrentPhaseIndex,  \* assistant-message PhaseTracker.currentPhaseIndex
    legacyPending,            \* moveToNextPhase calls suspended at await controller.clearTask()
    legacySignals,            \* phase tasks spawned so far, in order
    fsObserved,               \* whether the checkpoint directory is part of the state explored
    fsTmp,                    \* content of .cline/phase-checkpoint.json.tmp, or Absent
    fsLive,                   \* content of .cline/phase-checkpoint.json, or Absent
    savers,                   \* the saveCheckpoint calls of the older tracker under way
    restored,                 \* what the last fromCheckpoint() returned
    impPhases,                \* ImprovedPhaseTracker.phases
    impCurrentPhaseIndex,     \* ImprovedPhaseTracker.currentPhaseIndex
    sched,                    \* the executeParallel() call: its position and its locals
    admitted,                 \* history: phases put into a group, with their status then
    started,                  \* history: phases executePhase() started, with their status then
    modedPhases,              \* phases of the PhaseTracker that has a phaseExecutionMode
    modedCurrentPhaseIndex,   \* its currentPhaseIndex
    modedRun,                 \* its executeAll() call: position and locals
    parseCall,                \* the last call of a plan parser: its document and the phases returned
    truncation,               \* the last call of ContextManager.getNextTruncationRange
    legacyTracker,            \* PhaseTrackerAdapter.legacyTracker: its phases and currentPhaseIndex
    improvedTracker,          \* PhaseTrackerAdapter.improvedTracker: its phases and currentPhaseIndex
    useImproved,              \* PhaseTrackerAdapter.useImproved
    adapterCall,              \* history: the last adapter operation and whether it threw
    callers,                  \* the createSnapshot calls of each process: position and result
    snapshotFs,               \* the snapshot file and snapshot.lock
    snapshotLog               \* history: who wrote the snapshot file, and whether over an existing one

improvedVars == <<impPhases, impCurrentPhaseIndex, sched, admitted, started>>

modedVars == <<modedPhases, modedCurrentPhaseIndex, modedRun>>

parserVars == <<parseCall>>

contextVars == <<truncation>>

adapterVars == <<legacyTracker, improvedTracker, useImproved, adapterCall>>

snapshotVars == <<callers, snapshotFs, snapshotLog>>

trackerVars == <<phaseStates, currentPhaseIndex, lastOp, lastResult, revived,
                 legacyPhaseStates, legacyCurrentPhaseIndex, legacyPending, legacySignals,
                 fsObserved, fsTmp, fsLive, savers, restored>>

vars == <<phaseStates, currentPhaseIndex, lastOp, lastResult, revived,
          legacyPhaseStates, legacyCurrentPhaseIndex, legacyPending, legacySignals,
          fsObserved, fsTmp, fsLive, savers, restored,
          impPhases, impCurrentPhaseIndex, sched, admitted, started,
          modedPhases, modedCurrentPhaseIndex, modedRun, parseCall, truncation,
          legacyTracker, improvedTracker, useImproved, adapterCall,
          callers, snapshotFs, snapshotLog>>

(***************************************************************************)
(* Helpers over sequences.                                                 *)
(***************************************************************************)
\* states.find((p) => p.index === phaseId) as a position: the first position
\* whose PhaseState carries that index, 0 when there is none
FindByIndex(states, phaseId) ==
    IF \E i \in 1..Len(states) : states[i].index = phaseId
    THEN CHOOSE i \in 1..Len(states) :
            /\ states[i].index = phaseId
            /\ \A j \in 1..(i - 1) : states[j].index # phaseId
    ELSE 0

(***************************************************************************)
(* Inputs: the phases a parser hands to the tracker.  Every checklist item *)
(* of a freshly parsed phase is not completed; the phase number is         *)
(* whatever the document's number field holds.                             *)
(***************************************************************************)
\* parseChecklist: the items of a parsed checklist, none completed
FreshChecklist == <<FALSE, FALSE>>

ParsedPhase == [phaseIdx : 0..MaxPhaseIdx, completionCriteria : {FreshChecklist}]

ParsedPhases == UNION {[1..n -> ParsedPhase] : n \in 1..(MaxPhaseStates - 1)}

\* the PhaseState pushed for a parsed phase
NewPhaseState(p) ==
    [index |-> p.phaseIdx,
     taskId |-> "",
     status |-> Pending,
     startTime |-> Undefined,
     endTime |-> Undefined,
     retryCount |-> 0,
     startCheckpointHash |-> Undefined,
     completionCriteria |-> p.completionCriteria]

\* the synthetic plan phase pushed by the constructor
PlanPhaseState ==
    [index |-> 0,
     taskId |-> "",
     status |-> Pending,
     startTime |-> Stamped,
     endTime |-> Undefined,
     retryCount |-> 0,
     startCheckpointHash |-> Undefined,
     completionCriteria |-> << >>]

RECURSIVE PushAll(_, _)
PushAll(states, parsedPhases) ==
    IF parsedPhases = << >> THEN states
    ELSE PushAll(Append(states, NewPhaseState(Head(parsedPhases))), Tail(parsedPhases))

(***************************************************************************)
(* Queries.  Positions are 1-based here: position i models array index     *)
(* i - 1, and currentPhaseIndex keeps the program's 0-based value.         *)
(***************************************************************************)
Cur == currentPhaseIndex + 1

HasCurrent == Cur \in 1..Len(phaseStates)

getCurrentPhaseRetryCount ==
    IF HasCurrent THEN phaseStates[Cur].retryCount ELSE 0

canRetryCurrentPhase == getCurrentPhaseRetryCount < PHASE_RETRY_LIMIT

\* a variant that looks at the cursor's position only
HasNextPhaseByPosition(states, idx) == idx < Len(states) - 1

HasNextPhaseOf(states, idx) ==
    \E i \in (idx + 2)..Len(states) : states[i].status = Pending

hasNextPhase == HasNextPhaseOf(phaseStates, currentPhaseIndex)

IsAllCompleteOf(states) ==
    \A i \in 1..Len(states) : states[i].status \in {Completed, Skipped}

isAllComplete == IsAllCompleteOf(phaseStates)

\* getPhaseCompletionAction(): what the completion handler does next
getPhaseCompletionAction ==
    IF isAllComplete THEN "all_complete"
    ELSE IF currentPhaseIndex < Len(phaseStates) - 1 THEN "partial_complete"
    ELSE "non_phase"

(***************************************************************************)
(* The older tracker (core/assistant-message/phase-tracker.ts): its        *)
(* PhaseStates carry a complete flag, a status string and the subtasks.    *)
(***************************************************************************)
InComplete == "in-complete"

\* parsePhases / createPhasesFromMatches: the subtasks of a parsed phase,
\* none completed
LegacyFreshSubtasks == <<FALSE, FALSE>>

\* a parsed Phase: index is the number of the "Phase N:" header
LegacyParsedPhase == [index : 0..MaxPhaseIdx, subtasks : {LegacyFreshSubtasks}]

LegacyParsedPhases == UNION {[1..n -> LegacyParsedPhase] : n \in 1..(MaxPhaseStates - 1)}

\* constructor: the synthetic plan PhaseState
LegacyPlanPhaseState ==
    [index     |-> 0,
     subtasks  |-> << >>,
     complete  |-> FALSE,
     status    |-> InComplete,
     startTime |-> Stamped,
     endTime   |-> Undefined]

\* addPhasesFromPlan: the PhaseState pushed for one parsed phase
LegacyNewPhaseState(p) ==
    [index     |-> p.index,
     subtasks  |-> [i \in 1..Len(p.subtasks) |->
                       [completed |-> p.subtasks[i], endTime |-> Undefined]],
     complete  |-> FALSE,
     status    |-> InComplete,
     startTime |-> Stamped,
     endTime   |-> Undefined]

RECURSIVE LegacyPushAll(_, _)
LegacyPushAll(states, parsedPhases) ==
    IF parsedPhases = << >> THEN states
    ELSE LegacyPushAll(Append(states, LegacyNewPhaseState(Head(parsedPhases))),
                       Tail(parsedPhases))

LegacyCur == legacyCurrentPhaseIndex + 1

LegacyHasCurrent == LegacyCur \in 1..Len(legacyPhaseStates)

\* hasNextPhase(): the cursor is before the last position
LegacyHasNextPhase == legacyCurrentPhaseIndex < Len(legacyPhaseStates) - 1

LegacyIsAllComplete == \A i \in 1..Len(legacyPhaseStates) : legacyPhaseStates[i].complete

(***************************************************************************)
(* The checkpoint document.  A text is the sequence of the values          *)
(* JSON.stringify writes that differ from one snapshot to the next: the    *)
(* elements of phaseStates in order, then currentPhaseIndex.               *)
(***************************************************************************)
\* the fields of a PhaseState that may hold undefined
OptionalFields == {"startTime", "endTime", "startCheckpointHash"}

\* JSON.stringify of one PhaseState: a property holding undefined is left out
StringifyPhaseState(ps) ==
    LET kept == DOMAIN ps \ {f \in OptionalFields \cap DOMAIN ps : ps[f] = Undefined}
    IN [f \in kept |-> ps[f]]

\* JSON.stringify(checkpointData) of the planning tracker
CheckpointText(states, idx) ==
    [i \in 1..Len(states) |-> StringifyPhaseState(states[i])]
        \o <<[currentPhaseIndex |-> idx]>>

\* JSON.stringify of one PhaseState of the older tracker, its SubtaskStates
\* included
LegacyStringifyPhaseState(ps) ==
    StringifyPhaseState(
        [ps EXCEPT !.subtasks = [i \in 1..Len(@) |-> StringifyPhaseState(@[i])]])

\* JSON.stringify(checkpointData) of the older tracker
LegacyCheckpointText(states, idx) ==
    [i \in 1..Len(states) |-> LegacyStringifyPhaseState(states[i])]
        \o <<[currentPhaseIndex |-> idx]>>

\* a text that is one whole snapshot: the elements of phaseStates followed by
\* currentPhaseIndex, and nothing after
IsSnapshotText(text) ==
    /\ text # Absent
    /\ Len(text) >= 1
    /\ "currentPhaseIndex" \in DOMAIN text[Len(text)]
    /\ \A i \in 1..(Len(text) - 1) : "status" \in DOMAIN text[i]

\* the texts a writer cut short leaves behind: the proper prefixes of a text
CutTexts(text) ==
    IF text = Absent THEN {} ELSE {SubSeq(text, 1, n) : n \in 0..(Len(text) - 1)}

\* a file holding the JSON document {}: well-formed, with no property at all
EmptyObjectText == <<[emptyObject |-> TRUE]>>

\* JSON.parse(text) does not throw: the text is one whole snapshot, or the
\* document {}; an empty, cut or mixed text is a SyntaxError
CanParse(text) == IsSnapshotText(text) \/ text = EmptyObjectText

\* JSON.parse(text): a missing property reads as undefined
JSONParse(text) ==
    IF text = EmptyObjectText
    THEN [phaseStates |-> Undefined, currentPhaseIndex |-> Undefined]
    ELSE [phaseStates |-> SubSeq(text, 1, Len(text) - 1),
          currentPhaseIndex |-> text[Len(text)].currentPhaseIndex]

\* a variant that leaves the cursor as the constructor set it
RestoreTrackerCursorless(checkpoint) ==
    [kind |-> "tracker",
     phaseStates |-> checkpoint.phaseStates,
     currentPhaseIndex |-> 0]

\* fromCheckpoint(): the tracker built from the parsed document
RestoreTracker(checkpoint) ==
    [kind |-> "tracker",
     phaseStates |-> checkpoint.phaseStates,
     currentPhaseIndex |-> checkpoint.currentPhaseIndex]

\* fromCheckpoint() on a checkpoint file: undefined when reading or parsing
\* throws, the restored tracker otherwise
FromCheckpointOf(file) ==
    IF file = Absent \/ ~CanParse(file) THEN NotFound
    ELSE RestoreTracker(JSONParse(file))

\* what a file holds after `data` is written at offset 0 over `old`: the bytes
\* of `old` beyond the end of `data` stay
WriteOver(old, data) ==
    IF Len(data) >= Len(old) THEN data
    ELSE data \o SubSeq(old, Len(data) + 1, Len(old))

\* a saveCheckpoint call that is not running
IdleSaver == [pc |-> "idle", content |-> << >>, fd |-> "none"]

(***************************************************************************)
(* History kept for the properties below; it never feeds back into the     *)
(* tracker.                                                                *)
(***************************************************************************)
Revived(old, new) ==
    {i \in 1..Len(old) : /\ i <= Len(new)
                         /\ old[i].status \in Terminal
                         /\ new[i].status = Pending}

\* the PhaseState the ImprovedPhaseTracker constructor pushes: the plan phase,
\* id 1, no dependencies property
ImprovedPlanPhase ==
    [id |-> 1, status |-> Pending, complete |-> FALSE, dependencies |-> {}]

\* the PhaseState the constructor of the PhaseTracker with execution modes
\* pushes: the plan phase, index 0
ModedPlanPhase == [index |-> 0, status |-> InComplete, complete |-> FALSE]

\* no executeAll() call under way, none made yet
ModedIdle ==
    [pc |-> "idle", mode |-> "none", pending |-> {}, at |-> 1, defaultAction |-> "execute",
     cursorAtCall |-> 0, phasesAtCall |-> << >>, decisions |-> << >>, runs |-> 0]

\* no executeParallel() call under way, none made yet
IdleSched ==
    [pc |-> "idle", groups |-> << >>, next |-> 1, inFlight |-> {}, cycle |-> FALSE, runs |-> 0,
     at |-> 0, defaultAction |-> "execute", cursorAtCall |-> 0, phasesAtCall |-> << >>,
     decisions |-> << >>]

\* the last conjunct of every operation: what it was and how it ended
Record(op, result, old, new) ==
    /\ lastOp' = op
    /\ lastResult' = result
    /\ revived' = Revived(old, new)
    /\ restored' = NotLoaded
    /\ UNCHANGED <<legacyPhaseStates, legacyCurrentPhaseIndex, legacyPending, legacySignals>>
    /\ UNCHANGED <<fsObserved, fsTmp, savers>>
    /\ UNCHANGED <<improvedVars, modedVars, parserVars, contextVars, adapterVars, snapshotVars>>

RECURSIVE SumRetryCount(_)
SumRetryCount(states) ==
    IF states = << >> THEN 0
    ELSE Head(states).retryCount + SumRetryCount(Tail(states))

(***************************************************************************)
(* Operations.                                                             *)
(***************************************************************************)
\* await this.saveCheckpoint() at the end of an operation, run to its end: the
\* snapshot of the state the operation leaves replaces the live file
AwaitSaveCheckpoint ==
    fsLive' = IF fsObserved THEN CheckpointText(phaseStates', currentPhaseIndex') ELSE fsLive

\* getNextTruncationRange has not been called
NotTruncated == [op |-> "none"]

\* no parser has been called
NotParsed == [op |-> "none", doc |-> << >>, phases |-> << >>]

\* new PhaseTracker(...) inside the adapter: the plan phase, id 1
AdapterLegacyTracker ==
    [phases |-> <<[id |-> 1, subtasks |-> << >>, complete |-> FALSE]>>,
     currentPhaseIndex |-> 0]

\* new ImprovedPhaseTracker(...) inside the adapter: the plan phase, id 1
AdapterImprovedTracker ==
    [phases |-> <<[id |-> 1, subtasks |-> << >>, complete |-> FALSE, status |-> Pending,
                   dependencies |-> {}]>>,
     currentPhaseIndex |-> 0]

\* both trackers as their constructors leave them, an empty checkpoint directory
Constructed ==
    /\ phaseStates = <<PlanPhaseState>>
    /\ currentPhaseIndex = 0
    /\ lastOp = "constructor"
    /\ lastResult = "ok"
    /\ revived = {}
    /\ legacyPhaseStates = <<LegacyPlanPhaseState>>
    /\ legacyCurrentPhaseIndex = 0
    /\ legacyPending = {}
    /\ legacySignals = << >>
    /\ fsTmp = Absent
    /\ fsLive = Absent
    /\ savers = [k \in 1..MaxSavers |-> IdleSaver]
    /\ restored = NotLoaded
    /\ impPhases = <<ImprovedPlanPhase>>
    /\ impCurrentPhaseIndex = 0
    /\ sched = IdleSched
    /\ admitted = {}
    /\ started = {}
    /\ modedPhases = <<ModedPlanPhase>>
    /\ modedCurrentPhaseIndex = 0
    /\ modedRun = ModedIdle
    /\ parseCall = NotParsed
    /\ truncation = NotTruncated
    /\ legacyTracker = AdapterLegacyTracker
    /\ improvedTracker = AdapterImprovedTracker
    /\ useImproved = TRUE
    /\ adapterCall = [op |-> "constructor", threw |-> FALSE]
    /\ callers = [c \in 1..MaxCallers |-> [pc |-> "idle", result |-> "none"]]
    /\ snapshotFs = [snapshot |-> FALSE, readOnly |-> FALSE, lock |-> FALSE]
    /\ snapshotLog = [writers |-> {}, overwritten |-> FALSE]

\* the trackers alone
Init == Constructed /\ fsObserved = FALSE

\* the trackers together with their checkpoint directory
InitFs == Constructed /\ fsObserved = TRUE

addPhasesFromPlan ==
    \E parsedPhases \in ParsedPhases :
        /\ Len(phaseStates) + Len(parsedPhases) <= MaxPhaseStates
        /\ phaseStates' = PushAll(phaseStates, parsedPhases)
        /\ UNCHANGED currentPhaseIndex
        /\ AwaitSaveCheckpoint
        /\ Record("addPhasesFromPlan", "ok", phaseStates, phaseStates')

\* a variant that keeps every PhaseState
KeptAllOnReplace(states, planPos) == states

\* this.phaseStates = [planPhase]: only the plan phase is kept
KeptOnReplace(states, planPos) == <<states[planPos]>>

replacePhasesFromPlan ==
    \E parsedPhases \in ParsedPhases :
        LET planPos == FindByIndex(phaseStates, 0) IN
        IF planPos = 0
        THEN /\ UNCHANGED <<phaseStates, currentPhaseIndex>>
             /\ UNCHANGED fsLive
             /\ Record("replacePhasesFromPlan", "throw", phaseStates, phaseStates)
        ELSE /\ phaseStates' = PushAll(KeptOnReplace(phaseStates, planPos), parsedPhases)
             /\ currentPhaseIndex' = 0
             \* only the plan phase survives: the other PhaseStates are new objects
             /\ AwaitSaveCheckpoint
             /\ Record("replacePhasesFromPlan", "ok", <<phaseStates[planPos]>>, phaseStates')

\* markChecklistDone: every item of the list becomes completed
markChecklistDone(subs) == [i \in 1..Len(subs) |-> TRUE]

\* completePhase(phaseId) applied to a list of PhaseStates
CompletePhaseIn(states, phaseId) ==
    LET pos == FindByIndex(states, phaseId) IN
    IF pos = 0 THEN states
    ELSE [states EXCEPT ![pos] =
            [@ EXCEPT !.completionCriteria = markChecklistDone(@),
                      !.status = Completed,
                      !.endTime = Stamped]]

completePhase(phaseId) == CompletePhaseIn(phaseStates, phaseId)

markCurrentPhaseComplete ==
    /\ UNCHANGED currentPhaseIndex
    /\ IF HasCurrent
       THEN /\ phaseStates' = completePhase(phaseStates[Cur].index)
            /\ AwaitSaveCheckpoint
            /\ Record("markCurrentPhaseComplete", "ok", phaseStates, phaseStates')
       ELSE /\ UNCHANGED phaseStates
            /\ UNCHANGED fsLive
            /\ Record("markCurrentPhaseComplete", "throw", phaseStates, phaseStates)

\* the writes markCurrentPhaseSkipped makes to one PhaseState
SkipState(ps) == [ps EXCEPT !.status = Skipped, !.startTime = Stamped, !.endTime = Stamped]

markCurrentPhaseSkipped ==
    \E skipRest \in BOOLEAN :
        /\ UNCHANGED currentPhaseIndex
        /\ IF ~HasCurrent
           THEN /\ UNCHANGED phaseStates
                /\ UNCHANGED fsLive
                /\ Record("markCurrentPhaseSkipped", "noop", phaseStates, phaseStates)
           ELSE /\ phaseStates' =
                       [i \in 1..Len(phaseStates) |->
                           IF i = Cur \/ (skipRest /\ i > Cur)
                           THEN SkipState(phaseStates[i])
                           ELSE phaseStates[i]]
                /\ UNCHANGED fsLive
                /\ Record("markCurrentPhaseSkipped", "ok", phaseStates, phaseStates')

\* a variant that forgets to count the retry
RetryStateUncounted(ps) ==
    [ps EXCEPT !.status = Pending,
               !.startTime = Undefined,
               !.endTime = Undefined,
               !.startCheckpointHash = Undefined]

\* the writes retryCurrentPhase makes to the current PhaseState
RetryState(ps) ==
    [ps EXCEPT !.retryCount = @ + 1,
               !.status = Pending,
               !.startTime = Undefined,
               !.endTime = Undefined,
               !.startCheckpointHash = Undefined]

retryCurrentPhase ==
    /\ UNCHANGED currentPhaseIndex
    /\ IF ~HasCurrent
       THEN /\ UNCHANGED phaseStates
            /\ UNCHANGED fsLive
            /\ Record("retryCurrentPhase", "throw", phaseStates, phaseStates)
       ELSE /\ SumRetryCount(phaseStates) < MaxRetries
            /\ phaseStates' = [phaseStates EXCEPT ![Cur] = RetryState(@)]
            /\ AwaitSaveCheckpoint
            /\ Record("retryCurrentPhase", "ok", phaseStates, phaseStates')

\* updatePhase(): the bounds check that throws
UpdatePhaseThrows(states, idx) == idx >= Len(states) - 1

\* updatePhase(): the writes to the PhaseState the cursor moved to (idx is the
\* cursor before the increment); writing to a missing PhaseState throws
UpdatePhaseStates(states, idx) ==
    IF idx + 2 \in 1..Len(states)
    THEN [states EXCEPT ![idx + 2] = [@ EXCEPT !.status = InProgress, !.startTime = Stamped]]
    ELSE states

updatePhase ==
    IF UpdatePhaseThrows(phaseStates, currentPhaseIndex)
    THEN /\ UNCHANGED <<phaseStates, currentPhaseIndex>>
         /\ UNCHANGED fsLive
         /\ Record("updatePhase", "throw", phaseStates, phaseStates)
    ELSE /\ currentPhaseIndex' = currentPhaseIndex + 1
         /\ phaseStates' = UpdatePhaseStates(phaseStates, currentPhaseIndex)
         /\ UNCHANGED fsLive
         /\ Record("updatePhase",
                   IF currentPhaseIndex + 2 \in 1..Len(phaseStates) THEN "ok" ELSE "throw",
                   phaseStates, phaseStates')

forceNextPhase ==
    LET skipped == IF HasCurrent
                   THEN [phaseStates EXCEPT ![Cur] = [@ EXCEPT !.status = Skipped, !.endTime = Stamped]]
                   ELSE phaseStates
    IN
    /\ IF HasNextPhaseOf(skipped, currentPhaseIndex)
       THEN /\ currentPhaseIndex' = currentPhaseIndex + 1
            /\ phaseStates' = UpdatePhaseStates(skipped, currentPhaseIndex)
       ELSE /\ phaseStates' = skipped
            /\ UNCHANGED currentPhaseIndex
    /\ AwaitSaveCheckpoint
    /\ Record("forceNextPhase", "ok", phaseStates, phaseStates')

setCurrentPhaseStartCheckpoint ==
    /\ UNCHANGED currentPhaseIndex
    /\ IF HasCurrent
       THEN /\ phaseStates' = [phaseStates EXCEPT ![Cur].startCheckpointHash = SomeHash]
            /\ UNCHANGED fsLive
            /\ Record("setCurrentPhaseStartCheckpoint", "ok", phaseStates, phaseStates')
       ELSE /\ UNCHANGED phaseStates
            /\ UNCHANGED fsLive
            /\ Record("setCurrentPhaseStartCheckpoint", "noop", phaseStates, phaseStates)

resetPhaseStatus ==
    \E startIdx \in 0..MaxPhaseStates :
        /\ phaseStates' =
               [i \in 1..Len(phaseStates) |->
                   IF i > startIdx
                   THEN [phaseStates[i] EXCEPT !.taskId = "", !.status = Pending]
                   ELSE phaseStates[i]]
        /\ UNCHANGED currentPhaseIndex
        /\ AwaitSaveCheckpoint
        /\ Record("resetPhaseStatus", "ok", phaseStates, phaseStates')

Next ==
    \/ addPhasesFromPlan
    \/ replacePhasesFromPlan
    \/ markCurrentPhaseComplete
    \/ markCurrentPhaseSkipped
    \/ retryCurrentPhase
    \/ updatePhase
    \/ forceNextPhase
    \/ resetPhaseStatus

Spec == Init /\ [][Next]_vars

\* the operations a phase goes through when the completion handler drives it
\* saveCheckpoint() called on its own and awaited
saveCheckpoint ==
    /\ UNCHANGED <<phaseStates, currentPhaseIndex>>
    /\ AwaitSaveCheckpoint
    /\ Record("saveCheckpoint", "ok", phaseStates, phaseStates)

\* fromCheckpoint(): reads the live checkpoint file and returns a tracker, or
\* undefined; this tracker itself is not changed
fromCheckpoint ==
    /\ restored' = FromCheckpointOf(fsLive)
    /\ lastOp' = "fromCheckpoint"
    /\ lastResult' = "ok"
    /\ revived' = {}
    /\ UNCHANGED <<phaseStates, currentPhaseIndex, fsObserved, fsTmp, fsLive, savers>>
    /\ UNCHANGED <<legacyPhaseStates, legacyCurrentPhaseIndex, legacyPending, legacySignals>>
    /\ UNCHANGED <<improvedVars, modedVars, parserVars, contextVars, adapterVars, snapshotVars>>

\* the checkpoint file as fromCheckpoint() may find it when the tracker did
\* not write it last: deleted, cut short, or a JSON document that is no
\* snapshot
CheckpointFileReplaced ==
    \E content \in {EmptyObjectText} \cup CutTexts(fsLive), deleted \in BOOLEAN :
        /\ fsLive' = IF deleted THEN Absent ELSE content
        /\ fsLive' # fsLive
        /\ restored' = NotLoaded
        /\ lastOp' = "CheckpointFileReplaced"
        /\ lastResult' = "ok"
        /\ revived' = {}
        /\ UNCHANGED <<phaseStates, currentPhaseIndex, fsObserved, fsTmp, savers>>
        /\ UNCHANGED <<legacyPhaseStates, legacyCurrentPhaseIndex, legacyPending, legacySignals>>
        /\ UNCHANGED <<improvedVars, modedVars, parserVars, contextVars, adapterVars, snapshotVars>>

NextRetry ==
    \/ addPhasesFromPlan
    \/ markCurrentPhaseComplete
    \/ setCurrentPhaseStartCheckpoint
    \/ retryCurrentPhase
    \/ updatePhase
    \/ forceNextPhase

SpecRetry == Init /\ [][NextRetry]_vars

(***************************************************************************)
(* Operations of the older tracker.                                        *)
(***************************************************************************)
LegacyRecord(op, result) ==
    /\ lastOp' = op
    /\ lastResult' = result
    /\ revived' = {}
    /\ UNCHANGED <<phaseStates, currentPhaseIndex, fsObserved, fsTmp, fsLive, restored>>
    /\ UNCHANGED <<improvedVars, modedVars, parserVars, contextVars, adapterVars, snapshotVars>>

\* this.saveCheckpoint() called and not awaited: the call runs up to its first
\* await (stat of the checkpoint directory) and goes on later
LegacyTriggerSave(triggered) ==
    IF fsObserved /\ triggered
    THEN \E k \in 1..MaxSavers :
            /\ savers[k].pc = "idle"
            /\ \A j \in 1..(k - 1) : savers[j].pc # "idle"
            /\ savers' = [savers EXCEPT ![k] = [pc |-> "stat", content |-> << >>, fd |-> "none"]]
    ELSE UNCHANGED savers

LegacyAddPhasesFromPlan ==
    \E parsedPhases \in LegacyParsedPhases :
        /\ Len(legacyPhaseStates) + Len(parsedPhases) <= MaxPhaseStates
        /\ legacyPhaseStates' = LegacyPushAll(legacyPhaseStates, parsedPhases)
        /\ UNCHANGED <<legacyCurrentPhaseIndex, legacyPending, legacySignals>>
        /\ LegacyTriggerSave(TRUE)
        /\ LegacyRecord("legacy.addPhasesFromPlan", "ok")

\* completePhase(phaseId) applied to a list of PhaseStates
LegacyCompletePhaseIn(states, phaseId) ==
    LET pos == FindByIndex(states, phaseId) IN
    IF pos = 0 THEN states
    ELSE [states EXCEPT ![pos] =
            [@ EXCEPT !.subtasks = [i \in 1..Len(@) |-> [completed |-> TRUE, endTime |-> Stamped]],
                      !.complete = TRUE,
                      !.status = Completed,
                      !.endTime = Stamped]]

LegacyCompleteSubtask ==
    \E phaseId \in 0..MaxPhaseIdx, subtaskId \in 0..Len(LegacyFreshSubtasks) :
        LET pos == FindByIndex(legacyPhaseStates, phaseId) IN
        /\ UNCHANGED <<legacyCurrentPhaseIndex, legacyPending, legacySignals>>
        /\ IF pos = 0 \/ subtaskId + 1 \notin 1..Len(legacyPhaseStates[pos].subtasks)
           THEN /\ UNCHANGED legacyPhaseStates
                /\ LegacyTriggerSave(FALSE)
                /\ LegacyRecord("legacy.completeSubtask", "noop")
           ELSE LET marked == [legacyPhaseStates EXCEPT ![pos].subtasks[subtaskId + 1] =
                                   [completed |-> TRUE, endTime |-> Stamped]]
                IN /\ legacyPhaseStates' =
                          IF \A i \in 1..Len(marked[pos].subtasks) : marked[pos].subtasks[i].completed
                          THEN LegacyCompletePhaseIn(marked, marked[pos].index)
                          ELSE marked
                   \* completePhase saves; checkpointFrequency is "phase"
                   /\ LegacyTriggerSave(\A i \in 1..Len(marked[pos].subtasks) :
                                            marked[pos].subtasks[i].completed)
                   /\ LegacyRecord("legacy.completeSubtask", "ok")

LegacyMarkCurrentPhaseComplete ==
    /\ UNCHANGED <<legacyCurrentPhaseIndex, legacyPending, legacySignals>>
    /\ IF LegacyHasCurrent
       THEN /\ legacyPhaseStates' =
                   LegacyCompletePhaseIn(legacyPhaseStates, legacyPhaseStates[LegacyCur].index)
            /\ LegacyTriggerSave(TRUE)
            /\ LegacyRecord("legacy.markCurrentPhaseComplete", "ok")
       ELSE /\ UNCHANGED legacyPhaseStates
            /\ LegacyTriggerSave(FALSE)
            /\ LegacyRecord("legacy.markCurrentPhaseComplete", "throw")

\* moveToNextPhase(openNewTask), up to its first suspension: reading
\* current.complete of a missing PhaseState throws before anything is written;
\* writing next.status of a missing PhaseState throws after the cursor has been
\* incremented; otherwise the call suspends at await controller.clearTask(),
\* holding the PhaseState it named next
LegacyMoveToNextPhase ==
    \E openNewTask \in BOOLEAN :
        /\ UNCHANGED legacySignals
        /\ IF ~LegacyHasCurrent
           THEN /\ UNCHANGED <<legacyPhaseStates, legacyCurrentPhaseIndex, legacyPending>>
                /\ LegacyTriggerSave(FALSE)
                /\ LegacyRecord("legacy.moveToNextPhase", "throw")
           ELSE LET current == legacyPhaseStates[LegacyCur]
                    completed == IF ~current.complete
                                 THEN LegacyCompletePhaseIn(legacyPhaseStates, current.index)
                                 ELSE legacyPhaseStates
                IN /\ legacyCurrentPhaseIndex' = legacyCurrentPhaseIndex + 1
                   /\ LegacyTriggerSave(~current.complete)
                   /\ IF LegacyCur + 1 \in 1..Len(completed)
                      THEN /\ legacyPhaseStates' =
                                  [completed EXCEPT ![LegacyCur + 1] =
                                      [@ EXCEPT !.status = InProgress, !.startTime = Stamped]]
                           /\ legacyPending' = legacyPending \cup
                                  {[next |-> LegacyCur + 1, openNewTask |-> openNewTask]}
                           /\ LegacyRecord("legacy.moveToNextPhase", "ok")
                      ELSE /\ legacyPhaseStates' = completed
                           /\ UNCHANGED legacyPending
                           /\ LegacyRecord("legacy.moveToNextPhase", "throw")

\* the phase task spawnPhaseTask(nextPhasePrompt, next.index) starts: the
\* position of the PhaseState the prompt was built from and the position of
\* the PhaseState whose index was passed
LegacySpawn(promptOf, indexOf) == [prompt |-> promptOf, index |-> indexOf]

\* moveToNextPhase after await controller.clearTask(): with openNewTask the
\* prompt is built from this.phaseStates[this.currentPhaseIndex], read again
\* here, and the task is spawned under next.index, read before the suspension
LegacyMoveToNextPhaseResume ==
    \E call \in legacyPending :
        /\ legacyPending' = legacyPending \ {call}
        /\ LegacyTriggerSave(FALSE)
        /\ UNCHANGED <<legacyPhaseStates, legacyCurrentPhaseIndex>>
        /\ IF ~call.openNewTask
           THEN /\ UNCHANGED legacySignals
                /\ LegacyRecord("legacy.moveToNextPhase.resume", "ok")
           ELSE IF LegacyHasCurrent
           THEN /\ legacySignals' = Append(legacySignals, LegacySpawn(LegacyCur, call.next))
                /\ LegacyRecord("legacy.moveToNextPhase.resume", "ok")
           ELSE /\ UNCHANGED legacySignals
                /\ LegacyRecord("legacy.moveToNextPhase.resume", "throw")

(***************************************************************************)
(* saveCheckpoint() of the older tracker, one step per suspension.  The    *)
(* temporary file has one fixed name; writeFile opens it (creating or      *)
(* truncating it), writes the content at offset 0 and closes it; rename    *)
(* moves the temporary file over the live one.  An open file follows its   *)
(* file through a rename: fd says which file the open handle is on now.    *)
(***************************************************************************)
SaverRecord(op, result) ==
    /\ lastOp' = op
    /\ lastResult' = result
    /\ revived' = {}
    /\ UNCHANGED <<phaseStates, currentPhaseIndex, fsObserved, restored>>
    /\ UNCHANGED <<legacyPhaseStates, legacyCurrentPhaseIndex, legacyPending, legacySignals>>
    /\ UNCHANGED <<improvedVars, modedVars, parserVars, contextVars, adapterVars, snapshotVars>>

\* after the directory check: checkpointData is built from the tracker as it
\* is now, and writeFile is called
LegacySaveSnapshot ==
    \E k \in 1..MaxSavers :
        /\ savers[k].pc = "stat"
        /\ savers' = [savers EXCEPT ![k] =
               [pc |-> "open",
                content |-> LegacyCheckpointText(legacyPhaseStates, legacyCurrentPhaseIndex),
                fd |-> "none"]]
        /\ UNCHANGED <<fsTmp, fsLive>>
        /\ SaverRecord("legacy.saveCheckpoint.snapshot", "ok")

\* writeFile opens the temporary file: created empty, or truncated
LegacySaveOpen ==
    \E k \in 1..MaxSavers :
        /\ savers[k].pc = "open"
        /\ fsTmp' = << >>
        /\ savers' = [savers EXCEPT ![k] = [@ EXCEPT !.pc = "write", !.fd = "tmp"]]
        /\ UNCHANGED fsLive
        /\ SaverRecord("legacy.saveCheckpoint.open", "ok")

\* writeFile writes the content through its handle and closes it
LegacySaveWrite ==
    \E k \in 1..MaxSavers :
        /\ savers[k].pc = "write"
        /\ fsTmp' = IF savers[k].fd = "tmp" THEN WriteOver(fsTmp, savers[k].content) ELSE fsTmp
        /\ fsLive' = IF savers[k].fd = "live" THEN WriteOver(fsLive, savers[k].content) ELSE fsLive
        /\ savers' = [savers EXCEPT ![k] = [@ EXCEPT !.pc = "rename", !.fd = "none"]]
        /\ SaverRecord("legacy.saveCheckpoint.write", "ok")

\* rename(tmpUri, checkpointUri, overwrite): fails when the temporary file is
\* gone, and the failure is swallowed by the catch
LegacySaveRename ==
    \E k \in 1..MaxSavers :
        /\ savers[k].pc = "rename"
        /\ IF fsTmp = Absent
           THEN /\ UNCHANGED <<fsTmp, fsLive>>
                /\ savers' = [savers EXCEPT ![k] = IdleSaver]
                /\ SaverRecord("legacy.saveCheckpoint.rename", "throw")
           ELSE /\ fsLive' = fsTmp
                /\ fsTmp' = Absent
                /\ savers' = [j \in 1..MaxSavers |->
                       IF j = k THEN IdleSaver
                       ELSE [savers[j] EXCEPT !.fd = IF @ = "tmp" THEN "live"
                                                     ELSE IF @ = "live" THEN "orphan"
                                                     ELSE @]]
                /\ SaverRecord("legacy.saveCheckpoint.rename", "ok")

NextLegacy ==
    \/ LegacyAddPhasesFromPlan
    \/ LegacyCompleteSubtask
    \/ LegacyMarkCurrentPhaseComplete
    \/ LegacyMoveToNextPhase
    \/ LegacyMoveToNextPhaseResume

SpecLegacy == Init /\ [][NextLegacy]_vars

\* the planning tracker with its checkpoint file: every operation runs to the
\* end of the save it awaits before the next one starts
NextCheckpoint ==
    \/ addPhasesFromPlan
    \/ markCurrentPhaseComplete
    \/ markCurrentPhaseSkipped
    \/ updatePhase
    \/ retryCurrentPhase
    \/ saveCheckpoint
    \/ fromCheckpoint
    \/ CheckpointFileReplaced

SpecCheckpoint == InitFs /\ [][NextCheckpoint]_vars

(***************************************************************************)
(* The attempt_completion handler: after a phase has finished it asks the  *)
(* user and drives the tracker.  The answers of the user are inputs.       *)
(***************************************************************************)
\* handlePartialPhasesComplete(), reached when getPhaseCompletionAction() is
\* "partial_complete"
handlePartialPhasesComplete ==
    /\ getPhaseCompletionAction = "partial_complete"
    /\ \E approveProceed \in BOOLEAN, shouldRetry \in BOOLEAN :
          IF approveProceed
          THEN \* if (hasNextPhase()) updatePhase(); await saveCheckpoint(); return
               /\ ~shouldRetry
               /\ IF hasNextPhase
                  THEN /\ currentPhaseIndex' = currentPhaseIndex + 1
                       /\ phaseStates' = UpdatePhaseStates(phaseStates, currentPhaseIndex)
                  ELSE UNCHANGED <<phaseStates, currentPhaseIndex>>
               /\ AwaitSaveCheckpoint
               /\ Record("updatePhase", IF hasNextPhase THEN "ok" ELSE "noop",
                         phaseStates, phaseStates')
          ELSE IF shouldRetry /\ canRetryCurrentPhase
               THEN retryCurrentPhase
               ELSE forceNextPhase

\* handleAllPhasesComplete(), reached when getPhaseCompletionAction() is
\* "all_complete": the tracker is touched only by a retry
handleAllPhasesComplete ==
    /\ getPhaseCompletionAction = "all_complete"
    /\ canRetryCurrentPhase
    /\ retryCurrentPhase

NextHandler ==
    \/ addPhasesFromPlan
    \/ markCurrentPhaseComplete
    \/ handlePartialPhasesComplete
    \/ handleAllPhasesComplete

SpecHandler == Init /\ [][NextHandler]_vars

(***************************************************************************)
(* A run under the completion handler: the plan is registered once, and    *)
(* each time the phase under the cursor finishes, onPhaseCompleted() marks *)
(* it complete and the handler then answers with what the user chose.      *)
(***************************************************************************)
\* the plan is registered after construction
DriverRegisterPhases ==
    /\ lastOp = "constructor"
    /\ addPhasesFromPlan

\* the phase under the cursor finishes: attempt_completion reaches
\* onPhaseCompleted()
DriverPhaseCompleted ==
    /\ lastOp \notin {"constructor", "markCurrentPhaseComplete"}
    /\ HasCurrent
    /\ phaseStates[Cur].status \in {Pending, InProgress}
    /\ markCurrentPhaseComplete

\* the switch on getPhaseCompletionAction() that follows
DriverAnswer ==
    /\ lastOp = "markCurrentPhaseComplete"
    /\ \/ handlePartialPhasesComplete
       \/ handleAllPhasesComplete

NextDriver ==
    \/ DriverRegisterPhases
    \/ DriverPhaseCompleted
    \/ DriverAnswer

\* every finished phase is answered, and a phase that runs finishes
SpecDriver ==
    Init /\ [][NextDriver]_vars /\ WF_vars(DriverPhaseCompleted) /\ WF_vars(DriverAnswer)

\* the older tracker registering and completing phases while its checkpoint
\* saves run
NextSave ==
    \/ LegacyAddPhasesFromPlan
    \/ LegacyMarkCurrentPhaseComplete
    \/ LegacySaveSnapshot
    \/ LegacySaveOpen
    \/ LegacySaveWrite
    \/ LegacySaveRename

SpecSave == InitFs /\ [][NextSave]_vars

(***************************************************************************)
(* ImprovedPhaseTracker: its phases carry an id, a status, the complete    *)
(* flag and the ids they depend on.  executeParallel() forms all its       *)
(* groups first, without suspending, and then runs them one after the      *)
(* other; executePhase() suspends once, on its timer.                      *)
(***************************************************************************)
\* this.phases.find((p) => p.id === phaseId) as a position, 0 when none
ImprovedFind(phases, phaseId) ==
    IF \E i \in 1..Len(phases) : phases[i].id = phaseId
    THEN CHOOSE i \in 1..Len(phases) :
            /\ phases[i].id = phaseId
            /\ \A j \in 1..(i - 1) : phases[j].id # phaseId
    ELSE 0

\* new Set(ids): the ids in order of first occurrence
RECURSIVE DistinctInOrder(_)
DistinctInOrder(ids) ==
    IF ids = << >> THEN << >>
    ELSE LET front == DistinctInOrder(SubSeq(ids, 1, Len(ids) - 1))
             last == ids[Len(ids)]
         IN  IF \E j \in 1..Len(front) : front[j] = last THEN front ELSE Append(front, last)

\* depsMet of executeParallel(): no dependencies, or each of them names a
\* phase that is found and complete
DepsMet(phases, phaseId) ==
    LET phase == phases[ImprovedFind(phases, phaseId)]
    IN  \/ phase.dependencies = {}
        \/ \A depId \in phase.dependencies :
              /\ ImprovedFind(phases, depId) # 0
              /\ phases[ImprovedFind(phases, depId)].complete

\* the grouping loop of executeParallel(): phaseGroups, and whether the loop
\* left through the "Dependency cycle detected" branch
RECURSIVE PhaseGroups(_, _)
PhaseGroups(phases, remaining) ==
    IF remaining = << >> THEN [groups |-> << >>, cycle |-> FALSE]
    ELSE LET Met(phaseId) == DepsMet(phases, phaseId)
             NotMet(phaseId) == ~DepsMet(phases, phaseId)
             group == SelectSeq(remaining, Met)
         IN  IF group = << >> THEN [groups |-> << >>, cycle |-> TRUE]
             ELSE LET rest == PhaseGroups(phases, SelectSeq(remaining, NotMet))
                  IN  [groups |-> <<group>> \o rest.groups, cycle |-> rest.cycle]

\* the ids of a group executePhase() does not return early on
Startable(phases, group) ==
    {group[k] : k \in {j \in 1..Len(group) :
                          /\ ImprovedFind(phases, group[j]) # 0
                          /\ ~phases[ImprovedFind(phases, group[j])].complete}}

\* completePhase(phaseId): the first phase with that id becomes complete
ImprovedCompletePhaseIn(phases, phaseId) ==
    LET at == ImprovedFind(phases, phaseId)
    IN  IF at = 0 THEN phases
        ELSE [phases EXCEPT ![at].complete = TRUE, ![at].status = Completed]

\* addPhasesFromPlan(): the parsed phases are pushed without dependencies,
\* then every phase from the third position on depends on the id that is its
\* array position minus one
ImprovedPushAll(phases, parsed) ==
    LET pushed == phases \o [k \in 1..Len(parsed) |->
                      [id |-> parsed[k], status |-> Pending, complete |-> FALSE,
                       dependencies |-> {}]]
    IN  [i \in 1..Len(pushed) |->
            IF i - 1 >= 2 THEN [pushed[i] EXCEPT !.dependencies = {i - 2}] ELSE pushed[i]]

ImprovedAddPhasesFromPlan ==
    \E first \in 1..2, n \in 1..(MaxImprovedPhases - 1) :
        /\ sched.pc = "idle"
        /\ sched.runs = 0
        /\ Len(impPhases) + n <= MaxImprovedPhases
        /\ impPhases' = ImprovedPushAll(impPhases, [k \in 1..n |-> first + k - 1])
        /\ UNCHANGED <<impCurrentPhaseIndex, sched, admitted, started>>
        /\ UNCHANGED <<trackerVars, modedVars, parserVars, contextVars, adapterVars, snapshotVars>>

\* fromCheckpoint(): tracker.phases is whatever the checkpoint document holds
ImprovedFromCheckpoint ==
    \E n \in 1..MaxRestoredPhases :
        \E deps \in [1..n -> SUBSET (1..n)] :
            /\ sched.pc = "idle"
            /\ sched.runs = 0
            /\ impPhases = <<ImprovedPlanPhase>>
            /\ impPhases' = [i \in 1..n |->
                                [id |-> i, status |-> Pending, complete |-> FALSE,
                                 dependencies |-> deps[i]]]
            /\ impPhases' # impPhases
            /\ impCurrentPhaseIndex' = 0
            /\ UNCHANGED <<sched, admitted, started>>
            /\ UNCHANGED <<trackerVars, modedVars, parserVars, contextVars, adapterVars, snapshotVars>>

\* markCurrentPhaseComplete(): completePhase of the id under the cursor
ImprovedMarkCurrentPhaseComplete ==
    /\ sched.pc = "idle"
    /\ impCurrentPhaseIndex < Len(impPhases)
    /\ ~impPhases[impCurrentPhaseIndex + 1].complete
    /\ impPhases' = ImprovedCompletePhaseIn(impPhases, impPhases[impCurrentPhaseIndex + 1].id)
    /\ UNCHANGED <<impCurrentPhaseIndex, sched, admitted, started>>
    /\ UNCHANGED <<trackerVars, modedVars, parserVars, contextVars, adapterVars, snapshotVars>>

\* moveToNextPhase() up to its first await: the phase under the cursor is
\* completed, the cursor moves, the phase it reaches becomes in-progress
ImprovedMoveToNextPhase ==
    /\ sched.pc = "idle"
    /\ impCurrentPhaseIndex < Len(impPhases)
    /\ LET done == ImprovedCompletePhaseIn(impPhases, impPhases[impCurrentPhaseIndex + 1].id)
           next == impCurrentPhaseIndex + 1
       IN  /\ impCurrentPhaseIndex' = next
           /\ impPhases' = IF next >= Len(impPhases) THEN done
                           ELSE [done EXCEPT ![next + 1].status = InProgress]
    /\ UNCHANGED <<sched, admitted, started>>
    /\ UNCHANGED <<trackerVars, modedVars, parserVars, contextVars, adapterVars, snapshotVars>>

\* executeParallel() up to its first await: all groups are formed
executeParallel ==
    /\ sched.pc = "idle"
    /\ sched.runs < MaxRuns
    /\ LET ids == DistinctInOrder([i \in 1..Len(impPhases) |-> impPhases[i].id])
           formed == PhaseGroups(impPhases, ids)
       IN  /\ sched' = [sched EXCEPT !.pc = "executing", !.groups = formed.groups, !.next = 1,
                                      !.inFlight = {}, !.cycle = formed.cycle,
                                      !.runs = sched.runs + 1]
           /\ admitted' = admitted \cup
                  {[id |-> formed.groups[g][k],
                    status |-> impPhases[ImprovedFind(impPhases, formed.groups[g][k])].status]
                     : <<g, k>> \in {<<g2, k2>> \in (1..Len(formed.groups)) \X (1..MaxImprovedPhases) :
                                        k2 <= Len(formed.groups[g2])}}
    /\ UNCHANGED <<impPhases, impCurrentPhaseIndex, started>>
    /\ UNCHANGED <<trackerVars, modedVars, parserVars, contextVars, adapterVars, snapshotVars>>

\* the next group is run: executePhase() of each member up to its timer; it
\* returns at once for a phase that is complete
ExecuteGroup ==
    /\ sched.pc = "executing"
    /\ sched.inFlight = {}
    /\ sched.next <= Len(sched.groups)
    /\ LET group == sched.groups[sched.next]
           starting == Startable(impPhases, group)
       IN  /\ impPhases' = [i \in 1..Len(impPhases) |->
                  IF \E phaseId \in starting : ImprovedFind(impPhases, phaseId) = i
                  THEN [impPhases[i] EXCEPT !.status = InProgress]
                  ELSE impPhases[i]]
           /\ started' = started \cup
                  {[id |-> phaseId,
                    status |-> impPhases[ImprovedFind(impPhases, phaseId)].status,
                    depsComplete |->
                        \A depId \in impPhases[ImprovedFind(impPhases, phaseId)].dependencies :
                            /\ ImprovedFind(impPhases, depId) # 0
                            /\ impPhases[ImprovedFind(impPhases, depId)].complete]
                     : phaseId \in starting}
           /\ sched' = [sched EXCEPT !.inFlight = starting, !.next = sched.next + 1]
    /\ UNCHANGED <<impCurrentPhaseIndex, admitted>>
    /\ UNCHANGED <<trackerVars, modedVars, parserVars, contextVars, adapterVars, snapshotVars>>

\* the timer of one executePhase() call fires: completePhase(phaseId)
ExecutePhaseDone ==
    \E phaseId \in sched.inFlight :
        /\ impPhases' = ImprovedCompletePhaseIn(impPhases, phaseId)
        /\ sched' = [sched EXCEPT !.inFlight = sched.inFlight \ {phaseId}]
        /\ UNCHANGED <<impCurrentPhaseIndex, admitted, started>>
        /\ UNCHANGED <<trackerVars, modedVars, parserVars, contextVars, adapterVars, snapshotVars>>

\* the last group has been awaited: executeParallel() returns
ExecuteParallelReturn ==
    /\ sched.pc = "executing"
    /\ sched.inFlight = {}
    /\ sched.next > Len(sched.groups)
    /\ sched' = [sched EXCEPT !.pc = "idle"]
    /\ UNCHANGED <<impPhases, impCurrentPhaseIndex, admitted, started>>
    /\ UNCHANGED <<trackerVars, modedVars, parserVars, contextVars, adapterVars, snapshotVars>>

NextParallel ==
    \/ ImprovedAddPhasesFromPlan
    \/ ImprovedFromCheckpoint
    \/ ImprovedMarkCurrentPhaseComplete
    \/ ImprovedMoveToNextPhase
    \/ executeParallel
    \/ ExecuteGroup
    \/ ExecutePhaseDone
    \/ ExecuteParallelReturn

SpecParallel == Init /\ [][NextParallel]_vars

(***************************************************************************)
(* executeSequentially() of the ImprovedPhaseTracker: the loop test with   *)
(* executePhase() up to its timer, the timer, and the move to the next     *)
(* phase.                                                                  *)
(***************************************************************************)
ImprovedHasNextPhase == impCurrentPhaseIndex < Len(impPhases) - 1

\* the call: nothing happens before the first loop test
executeSequentially ==
    /\ sched.pc = "idle"
    /\ sched.runs < MaxRuns
    /\ sched' = [sched EXCEPT !.pc = "sequential-test", !.runs = sched.runs + 1]
    /\ UNCHANGED <<impPhases, impCurrentPhaseIndex, admitted, started>>
    /\ UNCHANGED <<trackerVars, modedVars, parserVars, contextVars, adapterVars, snapshotVars>>

\* while (currentPhaseIndex < phases.length): the phase under the cursor is
\* handed to executePhase() by its id unless it is complete
ImprovedSequentialTest ==
    /\ sched.pc = "sequential-test"
    /\ IF impCurrentPhaseIndex >= Len(impPhases)
       THEN /\ sched' = [sched EXCEPT !.pc = "idle"]
            /\ UNCHANGED <<impPhases, started>>
       ELSE LET phaseState == impPhases[impCurrentPhaseIndex + 1]
                starting == IF phaseState.complete THEN {}
                            ELSE Startable(impPhases, <<phaseState.id>>)
            IN  /\ impPhases' = [i \in 1..Len(impPhases) |->
                       IF \E phaseId \in starting : ImprovedFind(impPhases, phaseId) = i
                       THEN [impPhases[i] EXCEPT !.status = InProgress]
                       ELSE impPhases[i]]
                /\ started' = started \cup
                       {[id |-> phaseId,
                         status |-> impPhases[ImprovedFind(impPhases, phaseId)].status,
                         depsComplete |->
                             \A depId \in impPhases[ImprovedFind(impPhases, phaseId)].dependencies :
                                 /\ ImprovedFind(impPhases, depId) # 0
                                 /\ impPhases[ImprovedFind(impPhases, depId)].complete]
                          : phaseId \in starting}
                /\ sched' = [sched EXCEPT !.inFlight = starting,
                                          !.pc = IF starting = {} THEN "sequential-move"
                                                 ELSE "sequential-execute"]
    /\ UNCHANGED <<impCurrentPhaseIndex, admitted>>
    /\ UNCHANGED <<trackerVars, modedVars, parserVars, contextVars, adapterVars, snapshotVars>>

\* the timer of executePhase() fires: completePhase(phaseId)
ImprovedSequentialExecuted ==
    /\ sched.pc = "sequential-execute"
    /\ \E phaseId \in sched.inFlight :
          /\ impPhases' = ImprovedCompletePhaseIn(impPhases, phaseId)
          /\ sched' = [sched EXCEPT !.inFlight = {}, !.pc = "sequential-move"]
    /\ UNCHANGED <<impCurrentPhaseIndex, admitted, started>>
    /\ UNCHANGED <<trackerVars, modedVars, parserVars, contextVars, adapterVars, snapshotVars>>

\* if (this.hasNextPhase()) await this.moveToNextPhase(); else break
ImprovedSequentialMove ==
    /\ sched.pc = "sequential-move"
    /\ IF ImprovedHasNextPhase
       THEN LET done == ImprovedCompletePhaseIn(impPhases, impPhases[impCurrentPhaseIndex + 1].id)
                next == impCurrentPhaseIndex + 1
            IN  /\ impCurrentPhaseIndex' = next
                /\ impPhases' = [done EXCEPT ![next + 1].status = InProgress]
                /\ sched' = [sched EXCEPT !.pc = "sequential-test"]
       ELSE /\ sched' = [sched EXCEPT !.pc = "idle"]
            /\ UNCHANGED <<impPhases, impCurrentPhaseIndex>>
    /\ UNCHANGED <<admitted, started>>
    /\ UNCHANGED <<trackerVars, modedVars, parserVars, contextVars, adapterVars, snapshotVars>>

NextSequential ==
    \/ ImprovedAddPhasesFromPlan
    \/ ImprovedFromCheckpoint
    \/ executeSequentially
    \/ ImprovedSequentialTest
    \/ ImprovedSequentialExecuted
    \/ ImprovedSequentialMove

SpecSequential == Init /\ [][NextSequential]_vars

(***************************************************************************)
(* executeConditionally() of the ImprovedPhaseTracker: from the cursor on, *)
(* each phase is executed or skipped as its predicate, or the default      *)
(* action, says.                                                           *)
(***************************************************************************)
\* the call up to the loop: without a configuration holding conditions it
\* logs an error and returns
executeConditionally ==
    \E configured \in BOOLEAN, defaultAction \in {"execute", "skip"} :
        /\ sched.pc = "idle"
        /\ sched.runs < MaxRuns
        /\ ~configured => defaultAction = "execute"
        /\ sched' = IF configured
                    THEN [sched EXCEPT !.pc = "conditional", !.at = impCurrentPhaseIndex,
                                       !.defaultAction = defaultAction,
                                       !.cursorAtCall = impCurrentPhaseIndex,
                                       !.phasesAtCall = impPhases,
                                       !.decisions = << >>,
                                       !.runs = sched.runs + 1]
                    ELSE [sched EXCEPT !.runs = sched.runs + 1]
        /\ UNCHANGED <<impPhases, impCurrentPhaseIndex, admitted, started>>
        /\ UNCHANGED <<trackerVars, modedVars, parserVars, contextVars, adapterVars, snapshotVars>>

\* one pass of for (let i = currentPhaseIndex; i < phases.length; i++), up to
\* the timer of executePhase() when the phase is executed
ImprovedConditionalStep ==
    /\ sched.pc = "conditional"
    /\ IF sched.at >= Len(impPhases)
       THEN /\ sched' = [sched EXCEPT !.pc = "idle"]
            /\ UNCHANGED <<impPhases, started>>
       ELSE \E predicate \in {"none", "true", "false"} :
               LET shouldExecute == IF predicate = "none" THEN sched.defaultAction = "execute"
                                    ELSE predicate = "true"
                   phase == impPhases[sched.at + 1]
                   starting == IF shouldExecute THEN Startable(impPhases, <<phase.id>>) ELSE {}
               IN  /\ impPhases' =
                          IF shouldExecute
                          THEN [i \in 1..Len(impPhases) |->
                                   IF \E phaseId \in starting : ImprovedFind(impPhases, phaseId) = i
                                   THEN [impPhases[i] EXCEPT !.status = InProgress]
                                   ELSE impPhases[i]]
                          ELSE [impPhases EXCEPT ![sched.at + 1].status = Skipped,
                                                 ![sched.at + 1].complete = TRUE]
                   /\ started' = started \cup
                          {[id |-> phaseId,
                            status |-> impPhases[ImprovedFind(impPhases, phaseId)].status,
                            depsComplete |->
                                \A depId \in impPhases[ImprovedFind(impPhases, phaseId)].dependencies :
                                    /\ ImprovedFind(impPhases, depId) # 0
                                    /\ impPhases[ImprovedFind(impPhases, depId)].complete]
                             : phaseId \in starting}
                   /\ sched' = [sched EXCEPT
                                   !.decisions = Append(sched.decisions, shouldExecute),
                                   !.inFlight = starting,
                                   !.pc = IF starting = {} THEN "conditional"
                                          ELSE "conditional-execute",
                                   !.at = IF starting = {} THEN sched.at + 1 ELSE sched.at]
    /\ UNCHANGED <<impCurrentPhaseIndex, admitted>>
    /\ UNCHANGED <<trackerVars, modedVars, parserVars, contextVars, adapterVars, snapshotVars>>

\* the timer of executePhase() fires: completePhase(phaseId), then i++
ImprovedConditionalExecuted ==
    /\ sched.pc = "conditional-execute"
    /\ \E phaseId \in sched.inFlight :
          /\ impPhases' = ImprovedCompletePhaseIn(impPhases, phaseId)
          /\ sched' = [sched EXCEPT !.inFlight = {}, !.pc = "conditional", !.at = sched.at + 1]
    /\ UNCHANGED <<impCurrentPhaseIndex, admitted, started>>
    /\ UNCHANGED <<trackerVars, modedVars, parserVars, contextVars, adapterVars, snapshotVars>>

NextConditional ==
    \/ ImprovedAddPhasesFromPlan
    \/ ImprovedMoveToNextPhase
    \/ executeConditionally
    \/ ImprovedConditionalStep
    \/ ImprovedConditionalExecuted

SpecConditional == Init /\ [][NextConditional]_vars

(***************************************************************************)
(* The PhaseTracker with a phaseExecutionMode: executeAll() dispatches on  *)
(* the mode to executeSequentially, executeParallel or                     *)
(* executeConditionally.  Its phases carry index, status and complete.     *)
(* The steps of a run are the stretches between two awaits.                *)
(***************************************************************************)
\* this.phases.find((p) => p.index === phaseId) as a position, 0 when none
ModedFind(phases, phaseId) ==
    IF \E i \in 1..Len(phases) : phases[i].index = phaseId
    THEN CHOOSE i \in 1..Len(phases) :
            /\ phases[i].index = phaseId
            /\ \A j \in 1..(i - 1) : phases[j].index # phaseId
    ELSE 0

\* completePhase(phaseId): the first phase with that index becomes complete
ModedCompletePhaseIn(phases, phaseId) ==
    LET at == ModedFind(phases, phaseId)
    IN  IF at = 0 THEN phases
        ELSE [phases EXCEPT ![at].complete = TRUE, ![at].status = Completed]

ModedHasNextPhase == modedCurrentPhaseIndex < Len(modedPhases) - 1

\* moveToNextPhase() up to its first await, as the phases it leaves: the
\* current phase is completed unless it is complete, and the phase the
\* cursor reaches becomes in-progress
ModedMovedPhases ==
    LET current == modedPhases[modedCurrentPhaseIndex + 1]
        done == IF current.complete THEN modedPhases
                ELSE ModedCompletePhaseIn(modedPhases, current.index)
        next == modedCurrentPhaseIndex + 1
    IN  IF next >= Len(modedPhases) THEN done
        ELSE [done EXCEPT ![next + 1].status = InProgress]

ModedAddPhasesFromPlan ==
    \E first \in 1..2, n \in 1..(MaxModedPhases - 1) :
        /\ modedRun.pc = "idle"
        /\ Len(modedPhases) + n <= MaxModedPhases
        /\ modedPhases' = modedPhases \o
               [k \in 1..n |-> [index |-> first + k - 1, status |-> InComplete, complete |-> FALSE]]
        /\ UNCHANGED <<modedCurrentPhaseIndex, modedRun>>
        /\ UNCHANGED <<trackerVars, improvedVars, parserVars, contextVars, adapterVars, snapshotVars>>

ModedMarkCurrentPhaseComplete ==
    /\ modedRun.pc = "idle"
    /\ modedCurrentPhaseIndex < Len(modedPhases)
    /\ modedPhases' = ModedCompletePhaseIn(modedPhases, modedPhases[modedCurrentPhaseIndex + 1].index)
    /\ modedPhases' # modedPhases
    /\ UNCHANGED <<modedCurrentPhaseIndex, modedRun>>
    /\ UNCHANGED <<trackerVars, improvedVars, parserVars, contextVars, adapterVars, snapshotVars>>

\* moveToNextPhase() called by the driver
ModedMoveToNextPhase ==
    /\ modedRun.pc = "idle"
    /\ modedCurrentPhaseIndex < Len(modedPhases)
    /\ modedPhases' = ModedMovedPhases
    /\ modedCurrentPhaseIndex' = modedCurrentPhaseIndex + 1
    /\ UNCHANGED modedRun
    /\ UNCHANGED <<trackerVars, improvedVars, parserVars, contextVars, adapterVars, snapshotVars>>

\* executeAll(): the switch on phaseExecutionMode; executionConfig holds the
\* default action of the conditional mode
executeAll ==
    \E mode \in {"sequential", "parallel", "conditional"}, defaultAction \in {"execute", "skip"} :
        /\ modedRun.pc = "idle"
        /\ modedRun.runs < MaxModedRuns
        /\ mode # "conditional" => defaultAction = "execute"
        /\ modedRun' = [pc |-> mode, mode |-> mode,
                        pending |-> {modedPhases[i].index : i \in 1..Len(modedPhases)},
                        at |-> 1, defaultAction |-> defaultAction,
                        cursorAtCall |-> modedCurrentPhaseIndex,
                        phasesAtCall |-> modedPhases,
                        decisions |-> << >>,
                        runs |-> modedRun.runs + 1]
        /\ UNCHANGED <<modedPhases, modedCurrentPhaseIndex>>
        /\ UNCHANGED <<trackerVars, improvedVars, parserVars, contextVars, adapterVars, snapshotVars>>

\* executeSequentially(): while (this.hasNextPhase()) await this.moveToNextPhase()
ModedSequentialStep ==
    /\ modedRun.pc = "sequential"
    /\ IF ModedHasNextPhase
       THEN /\ modedPhases' = ModedMovedPhases
            /\ modedCurrentPhaseIndex' = modedCurrentPhaseIndex + 1
            /\ UNCHANGED modedRun
       ELSE /\ modedRun' = [modedRun EXCEPT !.pc = "idle"]
            /\ UNCHANGED <<modedPhases, modedCurrentPhaseIndex>>
    /\ UNCHANGED <<trackerVars, improvedVars, parserVars, contextVars, adapterVars, snapshotVars>>

\* executeParallel(), one pass of while (pending.size) up to its await: the
\* for loop pushes nothing into group, so nothing is deleted from pending and
\* Promise.all is given no promise
ModedParallelGroup ==
    /\ modedRun.pc = "parallel"
    /\ LET group == << >>
           left == modedRun.pending \ {group[k] : k \in 1..Len(group)}
       IN  modedRun' = IF modedRun.pending = {}
                       THEN [modedRun EXCEPT !.pc = "idle"]
                       ELSE [modedRun EXCEPT !.pc = "parallel-await", !.pending = left]
    /\ UNCHANGED <<modedPhases, modedCurrentPhaseIndex>>
    /\ UNCHANGED <<trackerVars, improvedVars, parserVars, contextVars, adapterVars, snapshotVars>>

\* await Promise.all([]) resolves: back to the loop test
ModedParallelResume ==
    /\ modedRun.pc = "parallel-await"
    /\ modedRun' = [modedRun EXCEPT !.pc = "parallel"]
    /\ UNCHANGED <<modedPhases, modedCurrentPhaseIndex>>
    /\ UNCHANGED <<trackerVars, improvedVars, parserVars, contextVars, adapterVars, snapshotVars>>

\* executeConditionally(), one pass of for (const phase of this.phases): the
\* predicate of the phase, when there is one, says whether to execute
ModedConditionalStep ==
    /\ modedRun.pc = "conditional"
    /\ IF modedRun.at > Len(modedPhases)
       THEN /\ modedRun' = [modedRun EXCEPT !.pc = "idle"]
            /\ UNCHANGED modedPhases
       ELSE \E predicate \in {"none", "true", "false"} :
               LET should == IF predicate = "none" THEN modedRun.defaultAction = "execute"
                             ELSE predicate = "true"
                   phase == modedPhases[modedRun.at]
               IN  /\ modedPhases' =
                          IF should THEN ModedCompletePhaseIn(modedPhases, phase.index)
                          ELSE [modedPhases EXCEPT ![modedRun.at].status = Skipped,
                                                   ![modedRun.at].complete = TRUE]
                   /\ modedRun' = [modedRun EXCEPT !.at = modedRun.at + 1,
                                                   !.decisions = Append(modedRun.decisions, should)]
    /\ UNCHANGED modedCurrentPhaseIndex
    /\ UNCHANGED <<trackerVars, improvedVars, parserVars, contextVars, adapterVars, snapshotVars>>

\* the continuation of a run that is not idle
ModedRunStep ==
    \/ ModedSequentialStep
    \/ ModedParallelGroup
    \/ ModedParallelResume
    \/ ModedConditionalStep

NextModed ==
    \/ ModedAddPhasesFromPlan
    \/ ModedMarkCurrentPhaseComplete
    \/ ModedMoveToNextPhase
    \/ executeAll
    \/ ModedSequentialStep
    \/ ModedParallelGroup
    \/ ModedParallelResume
    \/ ModedConditionalStep

\* the event loop runs every continuation that is ready
SpecModed == Init /\ [][NextModed]_vars /\ WF_vars(ModedRunStep)

(***************************************************************************)
(* The plan parsers: parsePhaseNew and parsePhaseByMD of the planning      *)
(* module, parsePlanFromSubtaskFormat of the assistant-message module.     *)
(* A document is the sequence of its blocks; of a block the model keeps    *)
(* the text of its number field, the text of its execution-order field     *)
(* and whether parseChecklist() throws on it.  A text is a sequence of     *)
(* characters, << >> is the text of a field that is missing or empty.      *)
(***************************************************************************)
\* parseInt found no digit
NaN == [nan |-> TRUE]

\* a number
Num(n) == [nan |-> FALSE, n |-> n]

Digits == <<"0", "1", "2", "3", "4", "5", "6", "7", "8", "9">>

IsDigit(c) == \E d \in 1..Len(Digits) : Digits[d] = c

DigitValue(c) == (CHOOSE d \in 1..Len(Digits) : Digits[d] = c) - 1

\* parseInt(text, 10) of a trimmed, unsigned text: the value of its leading
\* digits, NaN when it has none
ParseInt(text) ==
    LET lead == CHOOSE k \in 0..Len(text) :
                    /\ \A i \in 1..k : IsDigit(text[i])
                    /\ k = Len(text) \/ ~IsDigit(text[k + 1])
        val[k \in 0..Len(text)] ==
            IF k = 0 THEN 0 ELSE val[k - 1] * 10 + DigitValue(text[k])
    IN  IF lead = 0 THEN NaN ELSE Num(val[lead])

\* (n).toString() of a number below ten
NumberToString(n) == <<Digits[n + 1]>>

LowerCase == <<"f", "i", "n", "a", "l", "x">>

UpperCase == <<"F", "I", "N", "A", "L", "X">>

\* String.prototype.toUpperCase over the characters the documents use
ToUpperCase(text) ==
    [i \in 1..Len(text) |->
        IF \E k \in 1..Len(LowerCase) : LowerCase[k] = text[i]
        THEN UpperCase[CHOOSE k \in 1..Len(LowerCase) : LowerCase[k] = text[i]]
        ELSE text[i]]

Final == <<"F", "I", "N", "A", "L">>

FinalLower == <<"f", "i", "n", "a", "l">>

Last == <<"L", "A", "S", "T">>

\* the number fields explored: missing, numeric, not a number, the sentinel
NumberTexts == {<< >>, <<"1">>, <<"2">>, <<"3">>, <<"x">>, Final, FinalLower}

\* the execution-order fields explored
OrderTexts == {<< >>, <<"1">>, <<"x">>, Last}

Blocks == [number : NumberTexts, execution_order : OrderTexts, checklistThrows : BOOLEAN]

Documents == UNION {[1..n -> Blocks] : n \in 0..MaxBlocks}

\* Array.prototype.sort((a, b) => a.key - b.key) as the orders it can leave:
\* order[i] is the position before the sort of the element at i after it.
\* Over numbers the sort is stable; a NaN key makes the comparator answer NaN
\* for some pairs, it is no consistent comparator, and the order is the
\* implementation's choice.
SortOrders(keys) ==
    {order \in Permutations(1..Len(keys)) :
        (\A k \in 1..Len(keys) : ~keys[k].nan) =>
            \A i, j \in 1..Len(keys) : i < j =>
                \/ keys[order[i]].n < keys[order[j]].n
                \/ keys[order[i]].n = keys[order[j]].n /\ order[i] < order[j]}

Reordered(items, order) == [i \in 1..Len(items) |-> items[order[i]]]

\* the phases array of parsePhaseNew after the first k blocks
RECURSIVE PhasesNew(_, _)
PhasesNew(phaseBlocks, k) ==
    IF k = 0 THEN << >>
    ELSE LET phases == PhasesNew(phaseBlocks, k - 1)
             numberStr == phaseBlocks[k].number
             exeOrderStr == phaseBlocks[k].execution_order
             phaseIdx ==
                 IF numberStr # << >>
                 THEN IF ToUpperCase(numberStr) = Final
                      THEN Num(Len(phaseBlocks))
                      ELSE ParseInt(numberStr)
                 ELSE Num(Len(phases) + 1)
             exeOrderIdx ==
                 IF exeOrderStr # << >>
                 THEN IF exeOrderStr = Last
                      THEN Num(Len(phaseBlocks))
                      ELSE ParseInt(exeOrderStr)
                 ELSE phaseIdx
         IN  IF phaseBlocks[k].checklistThrows
             THEN phases
             ELSE Append(phases, [phaseIdx |-> phaseIdx, exeOrderIdx |-> exeOrderIdx,
                                  block |-> k])

\* whether a '### Phase' header matches /^(\d+|FINAL|...):\s*(.+)$/i
HeaderMatches(numberStr) ==
    \/ numberStr # << >> /\ \A i \in 1..Len(numberStr) : IsDigit(numberStr[i])
    \/ ToUpperCase(numberStr) = Final

\* what /\*\*Execution Order\*\*:\s*(\d+)/ captures: the leading digits
LeadingDigits(text) ==
    SubSeq(text, 1, CHOOSE k \in 0..Len(text) :
                        /\ \A i \in 1..k : IsDigit(text[i])
                        /\ k = Len(text) \/ ~IsDigit(text[k + 1]))

\* the phases array of parsePhaseByMD after the first k sections
RECURSIVE PhasesByMD(_, _)
PhasesByMD(phaseSections, k) ==
    IF k = 0 THEN << >>
    ELSE LET phases == PhasesByMD(phaseSections, k - 1)
             numberStr == phaseSections[k].number
             exeOrderStr == LeadingDigits(phaseSections[k].execution_order)
             isFinalPhase == ToUpperCase(numberStr) = Final
             phaseIdx ==
                 IF numberStr # << >> /\ ~ParseInt(numberStr).nan
                 THEN ParseInt(numberStr)
                 ELSE IF isFinalPhase
                      THEN Num(Len(phaseSections))
                      ELSE Num(Len(phases) + 1)
             exeOrderIdx ==
                 IF exeOrderStr # << >> THEN ParseInt(exeOrderStr) ELSE phaseIdx
         IN  IF ~HeaderMatches(numberStr)
             THEN phases
             ELSE Append(phases, [phaseIdx |-> phaseIdx, exeOrderIdx |-> exeOrderIdx,
                                  block |-> k])

\* the phases array of parsePlanFromSubtaskFormat after the first k blocks;
\* a number field of << >> is a block without a <number> tag
RECURSIVE PhasesFromSubtasks(_, _)
PhasesFromSubtasks(subtaskMatches, k) ==
    IF k = 0 THEN << >>
    ELSE LET phases == PhasesFromSubtasks(subtaskMatches, k - 1)
             numberStr == IF subtaskMatches[k].number # << >>
                          THEN subtaskMatches[k].number
                          ELSE NumberToString(k)
             phaseIndex == IF numberStr = Final
                           THEN Num(Len(subtaskMatches))
                           ELSE ParseInt(numberStr)
         IN  Append(phases, [index |-> phaseIndex, block |-> k])

\* parsePhaseNew(raw)
parsePhaseNew ==
    /\ parseCall.op = "none"
    /\ \E raw \in Documents :
         LET phases == PhasesNew(raw, Len(raw))
         IN  \E order \in SortOrders([i \in 1..Len(phases) |-> phases[i].exeOrderIdx]) :
                 parseCall' = [op |-> "parsePhaseNew", doc |-> raw,
                            phases |-> Reordered(phases, order)]
    /\ UNCHANGED <<trackerVars, improvedVars, modedVars, contextVars, adapterVars, snapshotVars>>

\* parsePhaseByMD(raw); a section has no checklist that throws
parsePhaseByMD ==
    /\ parseCall.op = "none"
    /\ \E raw \in Documents :
         /\ \A k \in 1..Len(raw) : ~raw[k].checklistThrows
         /\ LET phases == PhasesByMD(raw, Len(raw))
            IN  \E order \in SortOrders([i \in 1..Len(phases) |-> phases[i].exeOrderIdx]) :
                    parseCall' = [op |-> "parsePhaseByMD", doc |-> raw,
                               phases |-> Reordered(phases, order)]
    /\ UNCHANGED <<trackerVars, improvedVars, modedVars, contextVars, adapterVars, snapshotVars>>

\* parsePlanFromSubtaskFormat(raw); it throws on a document without a block,
\* and reads neither an execution order nor a checklist
parsePlanFromSubtaskFormat ==
    /\ parseCall.op = "none"
    /\ \E raw \in Documents :
         /\ Len(raw) > 0
         /\ \A k \in 1..Len(raw) :
                ~raw[k].checklistThrows /\ raw[k].execution_order = << >>
         /\ LET phases == PhasesFromSubtasks(raw, Len(raw))
            IN  \E order \in SortOrders([i \in 1..Len(phases) |-> phases[i].index]) :
                    parseCall' = [op |-> "parsePlanFromSubtaskFormat", doc |-> raw,
                               phases |-> Reordered(phases, order)]
    /\ UNCHANGED <<trackerVars, improvedVars, modedVars, contextVars, adapterVars, snapshotVars>>

(***************************************************************************)
(* ContextManager.getNextTruncationRange and getTruncatedMessages.  A      *)
(* message is its role and the number of words countTokens() finds in it;  *)
(* at is its index in the history (from 0), kept to tell messages apart.   *)
(* Histories are in the Anthropic format: user and assistant in turn.      *)
(***************************************************************************)
\* the index of a message of the history is one less than its position here
RoleAt(i) == IF i % 2 = 0 THEN "user" ELSE "assistant"

Histories ==
    UNION {{[k \in 1..n |-> [role |-> RoleAt(k - 1), tokens |-> tokens[k], at |-> k - 1]] :
               tokens \in [1..n -> 1..MaxTokens]} :
           n \in 0..MaxMessages}

\* conversationHistoryDeletedRange: undefined (<< >>) or an inclusive range
\* [start, end] of indexes of the history, empty when end = start - 1
DeletedRanges(totalMessages) ==
    {<< >>} \cup {range \in (0..totalMessages) \X (-1..(totalMessages - 1)) :
                      range[1] <= range[2] + 1}

Max(a, b) == IF a >= b THEN a ELSE b

\* windowStart after the loop has looked at the messages from index i on
RECURSIVE WindowFrom(_, _, _, _)
WindowFrom(apiMessages, maxAllowedTokens, i, accumulated) ==
    IF i < 0 \/ accumulated + apiMessages[i + 1].tokens > maxAllowedTokens
    THEN i + 1
    ELSE WindowFrom(apiMessages, maxAllowedTokens, i - 1,
                    accumulated + apiMessages[i + 1].tokens)

\* deleteStart = prevDeleteEnd + 1, prevDeleteEnd being -1 without a range
DeleteStart(currentDeletedRange) ==
    (IF currentDeletedRange = << >> THEN -1 ELSE currentDeletedRange[2]) + 1

\* getNextTruncationRange(apiMessages, currentDeletedRange, maxAllowedTokens):
\* the range returned, or the TypeError of reading .role of undefined
GetNextTruncationRange(apiMessages, currentDeletedRange, maxAllowedTokens) ==
    LET totalMessages == Len(apiMessages)
        windowStart == WindowFrom(apiMessages, maxAllowedTokens, totalMessages - 1, 0)
        deleteStart == DeleteStart(currentDeletedRange)
        deleteEnd == Max(windowStart - 1, deleteStart - 1)
    IN  IF deleteEnd < 0 \/ deleteEnd >= totalMessages
        THEN [threw |-> TRUE, range |-> << >>]
        ELSE [threw |-> FALSE,
              range |-> <<deleteStart,
                          IF apiMessages[deleteEnd + 1].role # "assistant"
                          THEN deleteEnd - 1 ELSE deleteEnd>>]

\* Array.prototype.slice(from, to) for indexes that are not negative
Slice(messages, from, to) ==
    LET first == IF from > Len(messages) THEN Len(messages) ELSE from
        last == IF to > Len(messages) THEN Len(messages) ELSE to
    IN  IF first >= last THEN << >> ELSE SubSeq(messages, first + 1, last)

\* getTruncatedMessages(messages, deletedRange)
GetTruncatedMessages(messages, deletedRange) ==
    IF deletedRange = << >> THEN messages
    ELSE Slice(messages, 0, deletedRange[1])
             \o Slice(messages, deletedRange[2] + 1, Len(messages))

\* one call of getNextTruncationRange and, when it returns, of
\* getTruncatedMessages with the range returned
getNextTruncationRange ==
    /\ truncation.op = "none"
    /\ \E apiMessages \in Histories, maxAllowedTokens \in 0..MaxAllowedTokens :
       \E currentDeletedRange \in DeletedRanges(Len(apiMessages)) :
         LET result == GetNextTruncationRange(apiMessages, currentDeletedRange,
                                              maxAllowedTokens)
         IN  truncation' =
                 [op |-> "getNextTruncationRange",
                  apiMessages |-> apiMessages,
                  currentDeletedRange |-> currentDeletedRange,
                  maxAllowedTokens |-> maxAllowedTokens,
                  threw |-> result.threw,
                  range |-> result.range,
                  truncated |-> IF result.threw THEN << >>
                                ELSE GetTruncatedMessages(apiMessages, result.range)]
    /\ UNCHANGED <<trackerVars, improvedVars, modedVars, parserVars, adapterVars, snapshotVars>>

NextContext == getNextTruncationRange

SpecContext == Init /\ [][NextContext]_vars

(***************************************************************************)
(* parsePlanFromOutput of the planning module.  Its document is described  *)
(* by what the patterns find in it: whether it has a <project_overview>    *)
(* section, its <phase> blocks and its '### Phase' sections.  The          *)
(* reinforcement step changes requirement descriptions only, which the     *)
(* phases of this model do not carry.                                      *)
(***************************************************************************)
PlanDocuments == UNION {[1..n -> Blocks] : n \in 0..MaxPlanBlocks}

\* what parsePhaseNew can return for the blocks
OutcomesNew(phaseBlocks) ==
    LET phases == PhasesNew(phaseBlocks, Len(phaseBlocks))
    IN  {Reordered(phases, order) :
            order \in SortOrders([i \in 1..Len(phases) |-> phases[i].exeOrderIdx])}

\* what parsePhaseByMD can return for the sections
OutcomesByMD(phaseSections) ==
    LET phases == PhasesByMD(phaseSections, Len(phaseSections))
    IN  {Reordered(phases, order) :
            order \in SortOrders([i \in 1..Len(phases) |-> phases[i].exeOrderIdx])}

parsePlanFromOutput ==
    /\ parseCall.op = "none"
    /\ \E hasOverview, isMD \in BOOLEAN :
       \E phaseBlocks, phaseSections \in PlanDocuments :
         /\ \A k \in 1..Len(phaseSections) : ~phaseSections[k].checklistThrows
         /\ LET raw == [hasOverview |-> hasOverview, phaseBlocks |-> phaseBlocks,
                        phaseSections |-> phaseSections, isMD |-> isMD]
            IN  IF ~hasOverview
                THEN parseCall' = [op |-> "parsePlanFromOutput", doc |-> raw,
                                   phases |-> << >>,
                                   threw |-> "Project overview parsing failed"]
                ELSE \E phases \in IF isMD THEN OutcomesByMD(phaseSections)
                                           ELSE OutcomesNew(phaseBlocks) :
                         parseCall' = [op |-> "parsePlanFromOutput", doc |-> raw,
                                       phases |-> phases,
                                       threw |-> IF Len(phases) = 0
                                                 THEN "No phases found"
                                                 ELSE "nothing"]
    /\ UNCHANGED <<trackerVars, improvedVars, modedVars, contextVars, adapterVars, snapshotVars>>

(***************************************************************************)
(* parsePlanFromOutput of the assistant-message module.  Its document is   *)
(* described by the number of matches of each pattern: items of a 'Phase   *)
(* List' section, numbered items that name a phase, 'Phase N' headings,    *)
(* other headings that name a phase, step or stage, and lines of the form  *)
(* 'N) title'.                                                             *)
(***************************************************************************)
MatchCounts ==
    [phaseListItems : 0..MaxMatches, namedItems : 0..MaxMatches,
     phaseHeadings : 0..MaxMatches, looseHeadings : 0..MaxMatches,
     numberedLines : 0..MaxMatches]

\* n phases found by one strategy
PhasesFound(strategy, n) == [i \in 1..n |-> [index |-> i, strategy |-> strategy]]

\* extractStandardPhases(raw)
extractStandardPhases(raw) ==
    IF raw.phaseHeadings + raw.looseHeadings > 0
    THEN PhasesFound("headings", raw.phaseHeadings + raw.looseHeadings)
    ELSE PhasesFound("Implementation Phase", 1)

\* parsePhases(raw)
parsePhases(raw) ==
    IF raw.phaseListItems > 0 THEN PhasesFound("phase-list", raw.phaseListItems)
    ELSE IF raw.namedItems > 0 THEN PhasesFound("named-items", raw.namedItems)
    ELSE IF raw.phaseHeadings > 0 THEN PhasesFound("phase-headings", raw.phaseHeadings)
    ELSE extractStandardPhases(raw)

LegacyParsePlanFromOutput ==
    /\ parseCall.op = "none"
    /\ \E raw \in MatchCounts :
         LET phases == parsePhases(raw)
         IN  parseCall' = [op |-> "legacy parsePlanFromOutput", doc |-> raw,
                           phases |-> IF Len(phases) > 0 THEN phases
                                      ELSE PhasesFound("numbered-lines", raw.numberedLines),
                           threw |-> "nothing"]
    /\ UNCHANGED <<trackerVars, improvedVars, modedVars, contextVars, adapterVars, snapshotVars>>

(***************************************************************************)
(* reinforcePhaseRequirements.  A requirement item is an id with a         *)
(* description; descriptions come out of parseRequirementsList, which      *)
(* yields no empty one.  requirements.defined tells whether the phase has  *)
(* a requirements list at all.                                             *)
(***************************************************************************)
RequirementIds == {"REQ-001", "REQ-002"}

\* the requirement lists a phase can carry
PhaseRequirementLists ==
    UNION {[1..n -> [id : RequirementIds, description : {"terse"}]] :
              n \in 0..MaxRequirements}

\* the requirement lists a reinforcement section can carry
ReinforcementLists ==
    UNION {[1..n -> [id : RequirementIds, description : {"full", "fuller"}]] :
              n \in 0..MaxRequirements}

\* the phases given to reinforcePhaseRequirements
RequirementPhases ==
    UNION {{phases \in [1..n -> [phaseIdx : 1..n,
                                 requirements : [defined : BOOLEAN,
                                                 list : PhaseRequirementLists]]] :
               \A k \in 1..n :
                   /\ phases[k].phaseIdx = k
                   /\ ~phases[k].requirements.defined => phases[k].requirements.list = << >>} :
           n \in 0..MaxRequirementPhases}

\* the reinforcement argument: null, or the parsed section
Reinforcements ==
    {[present |-> FALSE, requirements |-> << >>]}
        \cup [present : {TRUE}, requirements : ReinforcementLists]

\* reinforcementMap.get(id) after the loop of reinforcementMap.set: the last
\* description set for the id
ReinforcementMapGet(requirements, id) ==
    LET at == {k \in 1..Len(requirements) : requirements[k].id = id}
    IN  IF at = {} THEN Undefined
        ELSE requirements[CHOOSE k \in at : \A other \in at : other <= k].description

\* the item kept as it is
KeptRequirement(req, requirements) == req

\* {...req, description: reinforcedDescription || req.description}
ReinforcedRequirement(req, requirements) ==
    LET reinforcedDescription == ReinforcementMapGet(requirements, req.id)
    IN  [req EXCEPT !.description =
            IF reinforcedDescription = Undefined \/ reinforcedDescription = ""
            THEN req.description
            ELSE reinforcedDescription]

\* the value reinforcePhaseRequirements(phases, reinforcement) returns
ReinforcedPhases(phases, reinforcement) ==
    IF ~reinforcement.present \/ Len(reinforcement.requirements) = 0
    THEN phases
    ELSE [i \in 1..Len(phases) |->
            IF ~phases[i].requirements.defined
            THEN phases[i]
            ELSE [phases[i] EXCEPT !.requirements.list =
                    [k \in 1..Len(phases[i].requirements.list) |->
                        ReinforcedRequirement(phases[i].requirements.list[k],
                                              reinforcement.requirements)]]]

\* reinforcePhaseRequirements(phases, reinforcement): doc.phases is the
\* argument as the call leaves it, no statement of the function writes to it
reinforcePhaseRequirements ==
    /\ parseCall.op = "none"
    /\ \E phases \in RequirementPhases, reinforcement \in Reinforcements :
         parseCall' = [op |-> "reinforcePhaseRequirements",
                       doc |-> [phases |-> phases, reinforcement |-> reinforcement,
                                given |-> phases],
                       phases |-> ReinforcedPhases(phases, reinforcement),
                       threw |-> "nothing"]
    /\ UNCHANGED <<trackerVars, improvedVars, modedVars, contextVars, adapterVars, snapshotVars>>

NextPlan ==
    \/ parsePlanFromOutput
    \/ LegacyParsePlanFromOutput
    \/ reinforcePhaseRequirements

SpecPlan == Init /\ [][NextPlan]_vars

NextParser ==
    \/ parsePhaseNew
    \/ parsePhaseByMD
    \/ parsePlanFromSubtaskFormat

SpecParser == Init /\ [][NextParser]_vars

(***************************************************************************)
(* PhaseTrackerAdapter: a PhaseTracker and an ImprovedPhaseTracker behind  *)
(* one interface.  A tracker is its phases and its currentPhaseIndex; a    *)
(* subtask is its completed flag, and the subtask at array position k of   *)
(* a phase with id p has the id "p-k".                                     *)
(***************************************************************************)
AdapterParsedPhase == [index : 1..MaxAdapterIdx, subtasks : 0..MaxAdapterSubtasks]

AdapterParsedPhases ==
    UNION {[1..n -> AdapterParsedPhase] : n \in 1..(MaxAdapterPhases - 1)}

\* this.phases[this.currentPhaseIndex] is a phase, not undefined
OnPhase(tracker) == tracker.currentPhaseIndex + 1 \in 1..Len(tracker.phases)

AllSubtasksCompleted(subtasks) == [k \in 1..Len(subtasks) |-> TRUE]

\* PhaseTracker.addPhasesFromPlan(parsedPhases)
AdapterLegacyAddPhasesFromPlan(tracker, parsedPhases) ==
    [tracker EXCEPT !.phases = @ \o [k \in 1..Len(parsedPhases) |->
        [id |-> parsedPhases[k].index,
         subtasks |-> [j \in 1..parsedPhases[k].subtasks |-> FALSE],
         complete |-> FALSE]]]

\* PhaseTracker.completeSubtask(subtaskIdx), the cursor being on a phase
AdapterLegacyCompleteSubtask(tracker, subtaskIdx) ==
    LET cur == tracker.currentPhaseIndex + 1 IN
    IF subtaskIdx + 1 \in 1..Len(tracker.phases[cur].subtasks)
    THEN [tracker EXCEPT !.phases[cur].subtasks[subtaskIdx + 1] = TRUE]
    ELSE tracker

\* PhaseTracker.markCurrentPhaseComplete(), the cursor being on a phase
AdapterLegacyMarkCurrentPhaseComplete(tracker) ==
    LET cur == tracker.currentPhaseIndex + 1 IN
    [tracker EXCEPT !.phases[cur].subtasks = AllSubtasksCompleted(@),
                    !.phases[cur].complete = TRUE]

\* PhaseTracker.moveToNextPhase(), the cursor being on a phase: nothing after
\* the increment writes to the tracker
AdapterLegacyMoveToNextPhase(tracker) ==
    [tracker EXCEPT !.phases[tracker.currentPhaseIndex + 1].complete = TRUE,
                    !.currentPhaseIndex = @ + 1]

\* ImprovedPhaseTracker.addPhasesFromPlan(parsedPhases)
AdapterImprovedAddPhasesFromPlan(tracker, parsedPhases) ==
    LET pushed == tracker.phases \o [k \in 1..Len(parsedPhases) |->
                      [id |-> parsedPhases[k].index,
                       subtasks |-> [j \in 1..parsedPhases[k].subtasks |-> FALSE],
                       complete |-> FALSE,
                       status |-> Pending,
                       dependencies |-> {}]]
    IN  [tracker EXCEPT !.phases =
            [i \in 1..Len(pushed) |->
                IF i - 1 >= 2 THEN [pushed[i] EXCEPT !.dependencies = {i - 2}] ELSE pushed[i]]]

\* ImprovedPhaseTracker.completePhase(phaseId): the first phase with that id
AdapterImprovedCompletePhase(tracker, phaseId) ==
    LET at == ImprovedFind(tracker.phases, phaseId) IN
    IF at = 0 THEN tracker
    ELSE [tracker EXCEPT !.phases[at].subtasks = AllSubtasksCompleted(@),
                         !.phases[at].complete = TRUE,
                         !.phases[at].status = Completed]

\* ImprovedPhaseTracker.completeSubtask(phaseId, phaseId + "-" + subtaskIdx)
AdapterImprovedCompleteSubtask(tracker, phaseId, subtaskIdx) ==
    LET at == ImprovedFind(tracker.phases, phaseId) IN
    IF at = 0 \/ subtaskIdx + 1 \notin 1..Len(tracker.phases[at].subtasks) THEN tracker
    ELSE LET marked == [tracker EXCEPT !.phases[at].subtasks[subtaskIdx + 1] = TRUE]
         IN  IF \A k \in 1..Len(marked.phases[at].subtasks) : marked.phases[at].subtasks[k]
             THEN AdapterImprovedCompletePhase(marked, phaseId)
             ELSE marked

\* ImprovedPhaseTracker.forceCompleteCurrentPhase(), the cursor being on a phase
AdapterImprovedForceCompleteCurrentPhase(tracker) ==
    LET cur == tracker.currentPhaseIndex + 1 IN
    [tracker EXCEPT !.phases[cur].subtasks = AllSubtasksCompleted(@),
                    !.phases[cur].complete = TRUE,
                    !.phases[cur].status = Completed]

\* ImprovedPhaseTracker.moveToNextPhase(), the cursor being on a phase
AdapterImprovedMoveToNextPhase(tracker) ==
    LET done == AdapterImprovedCompletePhase(tracker, tracker.phases[tracker.currentPhaseIndex + 1].id)
        next == tracker.currentPhaseIndex + 1
    IN  IF next >= Len(tracker.phases)
        THEN [done EXCEPT !.currentPhaseIndex = next]
        ELSE [done EXCEPT !.currentPhaseIndex = next, !.phases[next + 1].status = InProgress]

\* the two trackers during an adapter call, and whether the call has thrown
Trackers(legacy, improved, threw) ==
    [legacyTracker |-> legacy, improvedTracker |-> improved, threw |-> threw]

\* PhaseTrackerAdapter.completeSubtask(subtaskIdx): the older tracker first;
\* reading a property of phases[currentPhaseIndex] throws when the cursor of
\* that tracker is past its last phase
CompleteSubtaskIn(pair, subtaskIdx) ==
    IF ~OnPhase(pair.legacyTracker) THEN Trackers(pair.legacyTracker, pair.improvedTracker, TRUE)
    ELSE LET legacy == AdapterLegacyCompleteSubtask(pair.legacyTracker, subtaskIdx) IN
         IF ~OnPhase(pair.improvedTracker) THEN Trackers(legacy, pair.improvedTracker, TRUE)
         ELSE LET currentPhase == pair.improvedTracker.phases[pair.improvedTracker.currentPhaseIndex + 1]
              IN  IF subtaskIdx + 1 \in 1..Len(currentPhase.subtasks)
                  THEN Trackers(legacy,
                                AdapterImprovedCompleteSubtask(pair.improvedTracker,
                                                               currentPhase.id, subtaskIdx),
                                FALSE)
                  ELSE Trackers(legacy, pair.improvedTracker, FALSE)

\* this.currentSubtasks of the adapter: those of the selected tracker
CurrentSubtasksOf(pair, selected) ==
    LET tracker == IF selected THEN pair.improvedTracker ELSE pair.legacyTracker
    IN  tracker.phases[tracker.currentPhaseIndex + 1].subtasks

\* the loop of markCurrentPhaseComplete() from subtask i on: the array is the
\* one of the selected tracker, read as it is when the loop reaches i
RECURSIVE CompleteRemaining(_, _, _)
CompleteRemaining(pair, selected, i) ==
    IF pair.threw \/ i >= Len(CurrentSubtasksOf(pair, selected)) THEN pair
    ELSE IF ~CurrentSubtasksOf(pair, selected)[i + 1]
         THEN CompleteRemaining(CompleteSubtaskIn(pair, i), selected, i + 1)
         ELSE CompleteRemaining(pair, selected, i + 1)

\* PhaseTrackerAdapter.markCurrentPhaseComplete()
MarkCurrentPhaseCompleteIn(pair, selected) ==
    IF ~OnPhase(pair.legacyTracker) THEN Trackers(pair.legacyTracker, pair.improvedTracker, TRUE)
    ELSE LET legacy == AdapterLegacyMarkCurrentPhaseComplete(pair.legacyTracker) IN
         IF ~OnPhase(pair.improvedTracker) THEN Trackers(legacy, pair.improvedTracker, TRUE)
         ELSE LET improved == AdapterImprovedCompletePhase(pair.improvedTracker,
                                  pair.improvedTracker.phases[pair.improvedTracker.currentPhaseIndex + 1].id)
                  looped == CompleteRemaining(Trackers(legacy, improved, FALSE), selected, 0)
              IN  IF looped.improvedTracker.phases[looped.improvedTracker.currentPhaseIndex + 1].complete
                  THEN looped
                  ELSE IF selected
                       THEN Trackers(looped.legacyTracker,
                                     AdapterImprovedForceCompleteCurrentPhase(looped.improvedTracker),
                                     FALSE)
                       ELSE Trackers(AdapterLegacyMarkCurrentPhaseComplete(looped.legacyTracker),
                                     looped.improvedTracker, FALSE)

AdapterRecord(op, pair) ==
    /\ legacyTracker' = pair.legacyTracker
    /\ improvedTracker' = pair.improvedTracker
    /\ adapterCall' = [op |-> op, threw |-> pair.threw]
    /\ UNCHANGED <<trackerVars, improvedVars, modedVars, parserVars, contextVars, snapshotVars>>

AdapterAddPhasesFromPlan ==
    \E parsedPhases \in AdapterParsedPhases :
        /\ Len(legacyTracker.phases) + Len(parsedPhases) <= MaxAdapterPhases
        /\ AdapterRecord("addPhasesFromPlan",
               Trackers(AdapterLegacyAddPhasesFromPlan(legacyTracker, parsedPhases),
                        AdapterImprovedAddPhasesFromPlan(improvedTracker, parsedPhases),
                        FALSE))
        /\ UNCHANGED useImproved

AdapterCompleteSubtask ==
    \E subtaskIdx \in 0..MaxAdapterSubtasks :
        /\ AdapterRecord("completeSubtask",
               CompleteSubtaskIn(Trackers(legacyTracker, improvedTracker, FALSE), subtaskIdx))
        /\ UNCHANGED useImproved

AdapterMarkCurrentPhaseComplete ==
    /\ AdapterRecord("markCurrentPhaseComplete",
           MarkCurrentPhaseCompleteIn(Trackers(legacyTracker, improvedTracker, FALSE), useImproved))
    /\ UNCHANGED useImproved

\* moveToNextPhase(): only the selected tracker is asked to move
AdapterMoveToNextPhase ==
    /\ AdapterRecord("moveToNextPhase",
           IF useImproved
           THEN IF OnPhase(improvedTracker)
                THEN Trackers(legacyTracker, AdapterImprovedMoveToNextPhase(improvedTracker), FALSE)
                ELSE Trackers(legacyTracker, improvedTracker, TRUE)
           ELSE IF OnPhase(legacyTracker)
                THEN Trackers(AdapterLegacyMoveToNextPhase(legacyTracker), improvedTracker, FALSE)
                ELSE Trackers(legacyTracker, improvedTracker, TRUE))
    /\ UNCHANGED useImproved

selectImprovedTracker ==
    \E selected \in BOOLEAN :
        /\ useImproved' = selected
        /\ AdapterRecord("selectImprovedTracker", Trackers(legacyTracker, improvedTracker, FALSE))

NextAdapter ==
    \/ AdapterAddPhasesFromPlan
    \/ AdapterCompleteSubtask
    \/ AdapterMarkCurrentPhaseComplete
    \/ AdapterMoveToNextPhase
    \/ selectImprovedTracker

SpecAdapter == Init /\ [][NextAdapter]_vars

(***************************************************************************)
(* createSnapshot(planUri, baseUri, taskId) of planning/utils.ts, called   *)
(* by several processes for the same task; one step per await.  writeFile  *)
(* creates the file or replaces its content; it does not fail because the  *)
(* file exists.  Whether writeFile succeeds on a file made read-only, and  *)
(* whether chmod succeeds, depends on the platform and the user.           *)
(***************************************************************************)
SnapshotStep(c, pc, result) ==
    /\ callers' = [callers EXCEPT ![c] = [pc |-> pc, result |-> result]]
    /\ UNCHANGED <<trackerVars, improvedVars, modedVars, parserVars, contextVars, adapterVars>>

\* the call starts and suspends at fs.stat(snapshotUri)
createSnapshot ==
    \E c \in 1..MaxCallers :
        /\ callers[c].pc = "idle"
        /\ SnapshotStep(c, "stat", "none")
        /\ UNCHANGED <<snapshotFs, snapshotLog>>

\* stat answers: an existing snapshot is returned, otherwise the call goes on
\* to write the lock file
createSnapshotStat ==
    \E c \in 1..MaxCallers :
        /\ callers[c].pc = "stat"
        /\ IF snapshotFs.snapshot
           THEN SnapshotStep(c, "idle", "existing")
           ELSE SnapshotStep(c, "lock", "none")
        /\ UNCHANGED <<snapshotFs, snapshotLog>>

\* writeFile(lockUri, new Uint8Array())
createSnapshotLock ==
    \E c \in 1..MaxCallers :
        /\ callers[c].pc = "lock"
        /\ snapshotFs' = [snapshotFs EXCEPT !.lock = TRUE]
        /\ SnapshotStep(c, "read", "none")
        /\ UNCHANGED snapshotLog

\* readFile(planUri): the plan is read, or the read throws and the finally
\* block runs
createSnapshotRead ==
    \E c \in 1..MaxCallers, read \in BOOLEAN :
        /\ callers[c].pc = "read"
        /\ SnapshotStep(c, IF read THEN "write" ELSE "release", IF read THEN "none" ELSE "threw")
        /\ UNCHANGED <<snapshotFs, snapshotLog>>

\* writeFile(snapshotUri, buf)
createSnapshotWrite ==
    \E c \in 1..MaxCallers, permitted \in BOOLEAN :
        /\ callers[c].pc = "write"
        /\ IF snapshotFs.readOnly /\ ~permitted
           THEN /\ SnapshotStep(c, "release", "threw")
                /\ UNCHANGED <<snapshotFs, snapshotLog>>
           ELSE /\ snapshotFs' = [snapshotFs EXCEPT !.snapshot = TRUE]
                /\ snapshotLog' = [writers |-> snapshotLog.writers \cup {c},
                                   overwritten |-> snapshotLog.overwritten \/ snapshotFs.snapshot]
                /\ SnapshotStep(c, "chmod", "none")

\* fs.promises.chmod(snapshotUri.fsPath, 0o444); a failure is logged only
createSnapshotChmod ==
    \E c \in 1..MaxCallers, changed \in BOOLEAN :
        /\ callers[c].pc = "chmod"
        /\ snapshotFs' = [snapshotFs EXCEPT !.readOnly = @ \/ changed]
        /\ SnapshotStep(c, "release", "created")
        /\ UNCHANGED snapshotLog

\* finally: delete(lockUri); a failure is swallowed
createSnapshotRelease ==
    \E c \in 1..MaxCallers :
        /\ callers[c].pc = "release"
        /\ snapshotFs' = [snapshotFs EXCEPT !.lock = FALSE]
        /\ SnapshotStep(c, "idle", callers[c].result)
        /\ UNCHANGED snapshotLog

NextSnapshot ==
    \/ createSnapshot
    \/ createSnapshotStat
    \/ createSnapshotLock
    \/ createSnapshotRead
    \/ createSnapshotWrite
    \/ createSnapshotChmod
    \/ createSnapshotRelease

SpecSnapshot == Init /\ [][NextSnapshot]_vars

(***************************************************************************)
(* Vocabulary of the properties.                                           *)
(***************************************************************************)
\* position i holds the same PhaseState before and after the step
Kept(i) ==
    /\ i \in 1..Len(phaseStates)
    /\ i \in 1..Len(phaseStates')
    /\ (lastOp' = "replacePhasesFromPlan" => i = 1)

\* every PhaseState but the synthetic plan phase is Completed or Skipped
AllNonSyntheticDone ==
    \A i \in 2..Len(phaseStates) : phaseStates[i].status \in {Completed, Skipped}

\* the first Pending position after the cursor, 0 when there is none
NextPendingAfterCursor ==
    IF hasNextPhase
    THEN CHOOSE i \in (Cur + 1)..Len(phaseStates) :
            /\ phaseStates[i].status = Pending
            /\ \A j \in (Cur + 1)..(i - 1) : phaseStates[j].status # Pending
    ELSE 0

(***************************************************************************)
(* C1 as claimed: in every reachable state of a tracker, whatever          *)
(* operations were called, the cursor names an existing PhaseState:        *)
(* 0 <= currentPhaseIndex < Len(phaseStates).  The first conjunct is the   *)
(* planning tracker's cursor, the second the older tracker's.              *)
(***************************************************************************)
C1_Original ==
    /\ currentPhaseIndex >= 0 /\ currentPhaseIndex < Len(phaseStates)
    /\ legacyCurrentPhaseIndex >= 0 /\ legacyCurrentPhaseIndex < Len(legacyPhaseStates)

(***************************************************************************)
(* C2 as claimed: a Completed, Skipped or Failed PhaseState returns to     *)
(* Pending only through retryCurrentPhase, and that return increments its  *)
(* retryCount.                                                             *)
(***************************************************************************)
C2_Original ==
    [][\A i \in 1..Len(phaseStates) :
          (Kept(i) /\ phaseStates[i].status \in Terminal /\ phaseStates'[i].status = Pending)
          => /\ lastOp' = "retryCurrentPhase"
             /\ phaseStates'[i].retryCount = phaseStates[i].retryCount + 1]_vars

(***************************************************************************)
(* C2 as amended: a Completed, Skipped or Failed PhaseState returns to     *)
(* Pending only through retryCurrentPhase, which acts on the current       *)
(* PhaseState and increments its retryCount, or through resetPhaseStatus,  *)
(* which leaves its retryCount as it was.                                  *)
(***************************************************************************)
C2_ReturnToPending ==
    [][\A i \in 1..Len(phaseStates) :
          (Kept(i) /\ phaseStates[i].status \in Terminal /\ phaseStates'[i].status = Pending)
          => \/ /\ lastOp' = "retryCurrentPhase"
                /\ i = Cur
                /\ phaseStates'[i].retryCount = phaseStates[i].retryCount + 1
             \/ /\ lastOp' = "resetPhaseStatus"
                /\ phaseStates'[i].retryCount = phaseStates[i].retryCount]_vars

\* a retry has just taken the current, terminal PhaseState back to Pending
C2_Witness ==
    /\ lastOp = "retryCurrentPhase"
    /\ Cur \in revived
    /\ phaseStates[Cur].status = Pending
    /\ phaseStates[Cur].retryCount >= 1

(***************************************************************************)
(* C3 as claimed: a PhaseState becomes InProgress only from Pending and    *)
(* becomes Completed, Skipped or Failed only from InProgress; no operation *)
(* takes a Pending PhaseState directly to a terminal status.               *)
(***************************************************************************)
C3_Original ==
    [][\A i \in 1..Len(phaseStates) :
          (Kept(i) /\ phaseStates'[i].status # phaseStates[i].status)
          => /\ phaseStates'[i].status = InProgress => phaseStates[i].status = Pending
             /\ phaseStates'[i].status \in Terminal => phaseStates[i].status = InProgress]_vars

(***************************************************************************)
(* C4 as claimed: retryCurrentPhase requires canRetryCurrentPhase().       *)
(* While it holds, a retry resets the current PhaseState to Pending,       *)
(* clears startTime, endTime and the start checkpoint and increments       *)
(* retryCount; once retryCount has reached PHASE_RETRY_LIMIT the call      *)
(* fails and changes nothing, so retryCount never exceeds the limit.       *)
(***************************************************************************)
C4_Original ==
    /\ [][lastOp' = "retryCurrentPhase"
          => IF canRetryCurrentPhase
             THEN /\ lastResult' = "ok"
                  /\ phaseStates'[Cur].status = Pending
                  /\ phaseStates'[Cur].startTime = Undefined
                  /\ phaseStates'[Cur].endTime = Undefined
                  /\ phaseStates'[Cur].startCheckpointHash = Undefined
                  /\ phaseStates'[Cur].retryCount = phaseStates[Cur].retryCount + 1
             ELSE /\ lastResult' = "throw"
                  /\ UNCHANGED <<phaseStates, currentPhaseIndex>>]_vars
    /\ [](\A i \in 1..Len(phaseStates) : phaseStates[i].retryCount <= PHASE_RETRY_LIMIT)

(***************************************************************************)
(* C5 as claimed: no PhaseState's retryCount ever decreases, and           *)
(* canRetryCurrentPhase() is true while the current retryCount is below    *)
(* PHASE_RETRY_LIMIT and false exactly when it equals PHASE_RETRY_LIMIT.   *)
(***************************************************************************)
C5_Original ==
    /\ [][\A i \in 1..Len(phaseStates) :
             Kept(i) => phaseStates'[i].retryCount >= phaseStates[i].retryCount]_vars
    /\ [](getCurrentPhaseRetryCount < PHASE_RETRY_LIMIT => canRetryCurrentPhase)
    /\ [](~canRetryCurrentPhase <=> getCurrentPhaseRetryCount = PHASE_RETRY_LIMIT)

C7_Original ==
    [][(lastOp' = "updatePhase" /\ hasNextPhase)
       => /\ currentPhaseIndex' + 1 = NextPendingAfterCursor
          /\ phaseStates'[NextPendingAfterCursor].status = InProgress
          /\ \A i \in 1..Len(phaseStates) :
                phaseStates[i].status \in {Completed, Skipped}
                => phaseStates'[i].status # InProgress]_vars

(***************************************************************************)
(* C8 as claimed: advance called while hasNextPhase() is false fails and   *)
(* leaves the cursor and every PhaseState unchanged, also when the cursor  *)
(* is not on the last PhaseState.                                          *)
(***************************************************************************)
C8_Original ==
    [][(lastOp' = "updatePhase" /\ ~hasNextPhase)
       => /\ lastResult' = "throw"
          /\ UNCHANGED <<phaseStates, currentPhaseIndex>>]_vars

(***************************************************************************)
(* C9 as claimed: forceAdvance marks the current PhaseState Skipped; then, *)
(* if another phase remains, the cursor moves to the next Pending          *)
(* PhaseState, which becomes InProgress; otherwise the cursor stays and    *)
(* the tracker reports all-complete.                                       *)
(***************************************************************************)
C9_Original ==
    [][lastOp' = "forceNextPhase"
       => /\ phaseStates'[Cur].status = Skipped
          /\ IF hasNextPhase
             THEN /\ currentPhaseIndex' + 1 = NextPendingAfterCursor
                  /\ phaseStates'[NextPendingAfterCursor].status = InProgress
             ELSE /\ currentPhaseIndex' = currentPhaseIndex
                  /\ IsAllCompleteOf(phaseStates')]_vars

(***************************************************************************)
(* C10 as claimed: after completeCurrentPhase() every checklist item of    *)
(* the phase that was current has completed = true.                        *)
(***************************************************************************)
C10_Original ==
    [][lastOp' = "markCurrentPhaseComplete"
       => \A k \in 1..Len(phaseStates'[Cur].completionCriteria) :
             phaseStates'[Cur].completionCriteria[k] = TRUE]_vars

(***************************************************************************)
(* C11 as claimed: the tracker reports all-complete exactly when every     *)
(* PhaseState other than the synthetic plan PhaseState at position 0 is    *)
(* Completed or Skipped; the plan PhaseState's status plays no part.       *)
(* Stated for trackers that hold at least one registered phase.            *)
(***************************************************************************)
C11_Original ==
    Len(phaseStates) > 1 => (isAllComplete <=> AllNonSyntheticDone)

(***************************************************************************)
(* C12 as claimed: the completion action is all_complete when every        *)
(* PhaseState is terminal, otherwise partial_complete when some Pending    *)
(* PhaseState follows the cursor, otherwise non_phase.                     *)
(***************************************************************************)
C12_Original ==
    getPhaseCompletionAction =
        IF \A i \in 1..Len(phaseStates) : phaseStates[i].status \in Terminal
        THEN "all_complete"
        ELSE IF hasNextPhase THEN "partial_complete"
        ELSE "non_phase"

(***************************************************************************)
(* C13 as claimed: tracker mutations are atomic with respect to each       *)
(* other, so whatever the interleaving of concurrent calls at their        *)
(* suspension points, the phase-start signals sent are those of some       *)
(* serial order of the calls.  In every serial order a call spawns the     *)
(* task of the PhaseState it advanced to: prompt and index belong to the   *)
(* same PhaseState.                                                        *)
(***************************************************************************)
C13_Original ==
    \A k \in 1..Len(legacySignals) : legacySignals[k].prompt = legacySignals[k].index

(***************************************************************************)
(* C14 as claimed: at every instant the live checkpoint file is absent or  *)
(* holds one complete snapshot; a reader never finds a partly written      *)
(* file.                                                                   *)
(***************************************************************************)
C14_Original == fsLive = Absent \/ IsSnapshotText(fsLive)

(***************************************************************************)
(* C15 as claimed: once all overlapping saves have finished, the live      *)
(* checkpoint file holds exactly one complete snapshot, never a mixture    *)
(* or a truncated file.                                                    *)
(***************************************************************************)
C15_Original ==
    (\A k \in 1..MaxSavers : savers[k].pc = "idle") =>
        (fsLive = Absent \/ IsSnapshotText(fsLive))

C17_Original == restored.kind = "tracker" => IsSnapshotText(fsLive)

(***************************************************************************)
(* C18 as claimed: every operation that changes phaseStates or             *)
(* currentPhaseIndex saves, so when it has finished the live checkpoint    *)
(* is the snapshot of the tracker in memory.                               *)
(***************************************************************************)
C18_Original ==
    [][(phaseStates' # phaseStates \/ currentPhaseIndex' # currentPhaseIndex) =>
           fsLive' = CheckpointText(phaseStates', currentPhaseIndex')]_vars

(***************************************************************************)
(* Vocabulary of the scheduling claims: the dependency graph by ids, and   *)
(* its levels: a level holds the ids all of whose dependencies are in      *)
(* earlier levels.  The graph is acyclic when the levels take in every id. *)
(***************************************************************************)
PhaseIds(phases) == {phases[i].id : i \in 1..Len(phases)}

RECURSIVE Levels(_, _)
Levels(phases, done) ==
    LET ready == {phaseId \in PhaseIds(phases) \ done :
                     phases[ImprovedFind(phases, phaseId)].dependencies \subseteq done}
    IN  IF ready = {} THEN << >> ELSE <<ready>> \o Levels(phases, done \cup ready)

Acyclic(phases) ==
    LET levels == Levels(phases, {})
    IN  UNION {levels[k] : k \in 1..Len(levels)} = PhaseIds(phases)

(***************************************************************************)
(* C19 as claimed: a phase is put into a group, and is started by          *)
(* executePhase(), only while it is Pending and every phase it depends on  *)
(* is complete.                                                            *)
(***************************************************************************)
C19_Original ==
    /\ \A a \in admitted : a.status = Pending
    /\ \A s \in started : s.status = Pending /\ s.depsComplete

(***************************************************************************)
(* C20 as claimed: for an acyclic dependency graph executeParallel() does  *)
(* not declare a cycle, puts every phase into some group, and has          *)
(* completed every phase when it returns.                                  *)
(***************************************************************************)
C20_Original ==
    (sched.runs > 0 /\ Acyclic(impPhases)) =>
        /\ ~sched.cycle
        /\ \A i \in 1..Len(impPhases) :
              \E g \in 1..Len(sched.groups) :
                 \E k \in 1..Len(sched.groups[g]) : sched.groups[g][k] = impPhases[i].id
        /\ (sched.pc = "idle" => \A i \in 1..Len(impPhases) : impPhases[i].complete)

C22_Original ==
    [][(sched.pc \in {"sequential-test", "sequential-execute", "sequential-move"}) =>
          \A i \in 1..Len(impPhases) :
             (impPhases[i].status # InProgress /\ impPhases'[i].status = InProgress) =>
                 \A j \in 1..(i - 1) : impPhases'[j].status \notin {Pending, InProgress}]_vars

(***************************************************************************)
(* C23 as claimed: when the loop of executeConditionally() has visited     *)
(* every phase from the cursor on, each of them is completed if its        *)
(* predicate (or, without one, the default action) said execute and        *)
(* skipped if it said skip, and the phases before the cursor are as they   *)
(* were at the call.                                                       *)
(***************************************************************************)
C23_Original ==
    (sched.pc = "conditional" /\ sched.at >= Len(impPhases)) =>
        \A p \in 1..Len(impPhases) :
            IF p <= sched.cursorAtCall
            THEN impPhases[p] = sched.phasesAtCall[p]
            ELSE impPhases[p].status =
                     IF sched.decisions[p - sched.cursorAtCall] THEN Completed ELSE Skipped

(***************************************************************************)
(* C24 as claimed: addPhasesFromPlan() called directly after               *)
(* addPhasesFromPlan(), with no replacePhasesFromPlan() in between, fails  *)
(* and leaves phaseStates and currentPhaseIndex as they were.              *)
(***************************************************************************)
C24_Original ==
    [][(lastOp = "addPhasesFromPlan" /\ lastOp' = "addPhasesFromPlan") =>
          (lastResult' = "throw" /\ phaseStates' = phaseStates
              /\ currentPhaseIndex' = currentPhaseIndex)]_vars

(***************************************************************************)
(* C25: after replacePhasesFromPlan(P) phaseStates is the plan phase, as   *)
(* it was, followed by one Pending PhaseState with retryCount 0 per phase  *)
(* of P, in P's order, and currentPhaseIndex is 0.                         *)
(***************************************************************************)
C25_ReplaceResets ==
    [][(lastOp' = "replacePhasesFromPlan" /\ lastResult' = "ok") =>
          /\ currentPhaseIndex' = 0
          /\ phaseStates[1].index = 0
          /\ phaseStates'[1] = phaseStates[1]
          /\ \E P \in ParsedPhases :
                /\ Len(phaseStates') = Len(P) + 1
                /\ \A k \in 1..Len(P) :
                      /\ phaseStates'[k + 1].index = P[k].phaseIdx
                      /\ phaseStates'[k + 1].status = Pending
                      /\ phaseStates'[k + 1].retryCount = 0]_vars

\* a plan was replaced after the tracker had advanced and the plan phase had
\* been completed: the cursor is back at 0 and the plan phase is still completed
C25_Witness ==
    /\ lastOp = "replacePhasesFromPlan"
    /\ lastResult = "ok"
    /\ Len(phaseStates) > 1
    /\ phaseStates[1].status = Completed
    /\ currentPhaseIndex = 0

(***************************************************************************)
(* C26 as claimed: right after construction there is exactly one           *)
(* PhaseState, the plan phase with index 0, its status is InProgress, and  *)
(* currentPhaseIndex is 0.                                                 *)
(***************************************************************************)
C26_Original ==
    lastOp = "constructor" =>
        /\ Len(phaseStates) = 1
        /\ phaseStates[1].index = 0
        /\ phaseStates[1].status = InProgress
        /\ currentPhaseIndex = 0

(***************************************************************************)
(* C27 as claimed: the completion handler calls forceNextPhase() only in a *)
(* state where canRetryCurrentPhase() is false, never while a retry is     *)
(* still allowed.                                                          *)
(***************************************************************************)
C27_Original == [][lastOp' = "forceNextPhase" => ~canRetryCurrentPhase]_vars

(***************************************************************************)
(* C28.  In tagged-block extraction a phase whose number field is the      *)
(* FINAL sentinel gets phaseIndex = blockCount and is last in the returned *)
(* order, for every document: no phase of another block comes after it.    *)
(***************************************************************************)
PhaseIndexOf(p) ==
    IF parseCall.op = "parsePlanFromSubtaskFormat" THEN p.index ELSE p.phaseIdx

C28_Original ==
    parseCall.op \in {"parsePhaseNew", "parsePlanFromSubtaskFormat"} =>
        \A i \in 1..Len(parseCall.phases) :
            parseCall.doc[parseCall.phases[i].block].number = Final =>
                /\ PhaseIndexOf(parseCall.phases[i]) = Num(Len(parseCall.doc))
                /\ \A j \in (i + 1)..Len(parseCall.phases) :
                       parseCall.doc[parseCall.phases[j].block].number = Final

(***************************************************************************)
(* C29.  phaseIndex is unique within every plan the parser returns: no two *)
(* phases of one parsed plan share a phaseIndex.                           *)
(***************************************************************************)
C29_Original ==
    parseCall.op \in {"parsePhaseNew", "parsePhaseByMD"} =>
        \A i, j \in 1..Len(parseCall.phases) :
            i # j => parseCall.phases[i].phaseIdx # parseCall.phases[j].phaseIdx

(***************************************************************************)
(* C30.  A tagged block whose number or execution-order field cannot be    *)
(* parsed as a number contributes no phase, every other block contributes  *)
(* one, and no returned phase has a phaseIndex or an executionOrder that   *)
(* is not a number.                                                        *)
(***************************************************************************)
Unparsable(text) == text \notin {<< >>, Final, FinalLower, Last} /\ ParseInt(text).nan

C30_Original ==
    parseCall.op = "parsePhaseNew" =>
        /\ \A k \in 1..Len(parseCall.doc) :
               (\E i \in 1..Len(parseCall.phases) : parseCall.phases[i].block = k)
                   <=> ~(\/ Unparsable(parseCall.doc[k].number)
                         \/ Unparsable(parseCall.doc[k].execution_order)
                         \/ parseCall.doc[k].checklistThrows)
        /\ \A i \in 1..Len(parseCall.phases) :
               /\ ~parseCall.phases[i].phaseIdx.nan
               /\ ~parseCall.phases[i].exeOrderIdx.nan

(***************************************************************************)
(* C31.  parse returns the result of the first strategy, in priority       *)
(* order, that yields at least one phase, and fails if and only if no      *)
(* strategy yields a phase: a strategy that yields nothing is followed by  *)
(* the next one.  For the planning module the strategies are the tagged    *)
(* blocks, then the markdown sections; for the older parser the generic    *)
(* numbered lines come before the catch-all phase.                         *)
(***************************************************************************)
Yields(outcomes) == \E phases \in outcomes : Len(phases) > 0

C31_Original ==
    /\ parseCall.op = "parsePlanFromOutput" =>
         LET tagged == OutcomesNew(parseCall.doc.phaseBlocks)
             markdown == OutcomesByMD(parseCall.doc.phaseSections)
         IN  /\ parseCall.threw # "nothing" <=> ~(Yields(tagged) \/ Yields(markdown))
             /\ parseCall.threw = "nothing" =>
                    parseCall.phases \in (IF Yields(tagged) THEN tagged ELSE markdown)
    /\ parseCall.op = "legacy parsePlanFromOutput" =>
         /\ parseCall.threw = "nothing"
         /\ Len(parseCall.phases) > 0
         /\ ( /\ parseCall.doc.phaseListItems = 0
              /\ parseCall.doc.namedItems = 0
              /\ parseCall.doc.phaseHeadings = 0
              /\ parseCall.doc.looseHeadings = 0
              /\ parseCall.doc.numberedLines > 0 ) =>
                parseCall.phases = PhasesFound("numbered-lines", parseCall.doc.numberedLines)

(***************************************************************************)
(* C32.  reinforce(phases, inventory) returns phases in which every        *)
(* requirement whose id is in the inventory carries the inventory's        *)
(* description and every other requirement keeps its own; the number, the  *)
(* order and the ids of phases and requirements are those of the input,    *)
(* the input is as it was given, and with an empty or absent inventory the *)
(* result equals the input.                                                *)
(***************************************************************************)
InInventory(id) ==
    \E k \in 1..Len(parseCall.doc.reinforcement.requirements) :
        parseCall.doc.reinforcement.requirements[k].id = id

C32_Reinforced ==
    parseCall.op = "reinforcePhaseRequirements" =>
        LET given == parseCall.doc.given
            inventory == parseCall.doc.reinforcement.requirements
            result == parseCall.phases
        IN  /\ parseCall.doc.phases = given
            /\ Len(result) = Len(given)
            /\ \A i \in 1..Len(given) :
                 /\ result[i].phaseIdx = given[i].phaseIdx
                 /\ result[i].requirements.defined = given[i].requirements.defined
                 /\ Len(result[i].requirements.list) = Len(given[i].requirements.list)
                 /\ \A k \in 1..Len(given[i].requirements.list) :
                      LET before == given[i].requirements.list[k]
                          after == result[i].requirements.list[k]
                      IN  /\ after.id = before.id
                          /\ IF InInventory(before.id)
                             THEN \E n \in 1..Len(inventory) :
                                      /\ inventory[n].id = before.id
                                      /\ \A m \in (n + 1)..Len(inventory) :
                                             inventory[m].id # before.id
                                      /\ after.description = inventory[n].description
                             ELSE after.description = before.description
            /\ Len(inventory) = 0 => result = given

\* a call that replaced one description and kept another
C32_Witness ==
    /\ parseCall.op = "reinforcePhaseRequirements"
    /\ \E i, j \in 1..Len(parseCall.phases) :
         /\ \E k \in 1..Len(parseCall.phases[i].requirements.list) :
                parseCall.phases[i].requirements.list[k].description = "fuller"
         /\ \E k \in 1..Len(parseCall.phases[j].requirements.list) :
                parseCall.phases[j].requirements.list[k].description = "terse"

(***************************************************************************)
(* C33.  The truncation range always keeps the first user-assistant pair:  *)
(* a range is returned, it never contains index 0 or 1, and without a      *)
(* previous range and with nothing to delete (no message, 1 or 2 messages, *)
(* all tokens within the budget) it is start 2, end 1.                     *)
(***************************************************************************)
RECURSIVE TotalTokens(_)
TotalTokens(messages) ==
    IF messages = << >> THEN 0 ELSE Head(messages).tokens + TotalTokens(Tail(messages))

C33_Original ==
    truncation.op = "getNextTruncationRange" =>
        /\ ~truncation.threw
        /\ \A index \in truncation.range[1]..truncation.range[2] : index \notin {0, 1}
        /\ ( /\ truncation.currentDeletedRange = << >>
             /\ \/ Len(truncation.apiMessages) <= 2
                \/ TotalTokens(truncation.apiMessages) <= truncation.maxAllowedTokens )
               => truncation.range = <<2, 1>>

(***************************************************************************)
(* C34.  Given a previous deleted range [a, b], the range returned starts  *)
(* at b + 1 and its end is at least start - 1, and getTruncatedMessages    *)
(* with the range returned holds no message twice.                         *)
(***************************************************************************)
C34_Original ==
    ( /\ truncation.op = "getNextTruncationRange"
      /\ truncation.currentDeletedRange # << >>
      /\ ~truncation.threw ) =>
        /\ truncation.range[1] = truncation.currentDeletedRange[2] + 1
        /\ truncation.range[2] >= truncation.range[1] - 1
        /\ \A i, j \in 1..Len(truncation.truncated) :
               i # j => truncation.truncated[i].at # truncation.truncated[j].at

(***************************************************************************)
(* C35.  Completing the current phase changes exactly the PhaseState under *)
(* the cursor: it becomes Completed, and no other PhaseState changes its   *)
(* status or its completion flags, also when two PhaseStates carry the     *)
(* same index or id.  Stated for markCurrentPhaseComplete of the           *)
(* ImprovedPhaseTracker and of the planning tracker, and for the           *)
(* completion that moveToNextPhase of the ImprovedPhaseTracker starts      *)
(* with, which leaves alone every PhaseState but the one it completes and  *)
(* the one it starts.                                                      *)
(***************************************************************************)
C35_Original ==
    [][ /\ ImprovedMoveToNextPhase =>
             /\ impPhases'[impCurrentPhaseIndex + 1].status = Completed
             /\ impPhases'[impCurrentPhaseIndex + 1].complete
             /\ \A i \in 1..Len(impPhases) :
                    i \notin {impCurrentPhaseIndex + 1, impCurrentPhaseIndex + 2} =>
                        /\ impPhases'[i].status = impPhases[i].status
                        /\ impPhases'[i].complete = impPhases[i].complete
        /\ ImprovedMarkCurrentPhaseComplete =>
             /\ impPhases'[impCurrentPhaseIndex + 1].status = Completed
             /\ impPhases'[impCurrentPhaseIndex + 1].complete
             /\ \A i \in 1..Len(impPhases) :
                    i # impCurrentPhaseIndex + 1 =>
                        /\ impPhases'[i].status = impPhases[i].status
                        /\ impPhases'[i].complete = impPhases[i].complete
        /\ (lastOp' = "markCurrentPhaseComplete" /\ lastResult' = "ok") =>
             /\ phaseStates'[Cur].status = Completed
             /\ \A i \in 1..Len(phaseStates) :
                    i # Cur =>
                        /\ phaseStates'[i].status = phaseStates[i].status
                        /\ phaseStates'[i].completionCriteria = phaseStates[i].completionCriteria
      ]_vars

(***************************************************************************)
(* C36.  Bounded retries make a run end: once the phases are registered    *)
(* and every phase completion is answered with move-to-next, retry (only   *)
(* while canRetryCurrentPhase()) or forceAdvance, the tracker eventually   *)
(* reaches a state where hasNextPhase() is false and every registered      *)
(* phase is Completed or Skipped.                                          *)
(***************************************************************************)
RunEnded ==
    /\ ~hasNextPhase
    /\ \A i \in 2..Len(phaseStates) : phaseStates[i].status \in {Completed, Skipped}

C36_Original == (Len(phaseStates) > 1) ~> RunEnded

(***************************************************************************)
(* C37: the two trackers behind PhaseTrackerAdapter stay in lock-step:     *)
(* after any sequence of adapter operations they have the same current     *)
(* phase position, the same totalPhases, the same hasNextPhase() and the   *)
(* same allPhasesCompleted().                                              *)
(***************************************************************************)
TrackerHasNextPhase(tracker) == tracker.currentPhaseIndex < Len(tracker.phases) - 1

TrackerAllPhasesCompleted(tracker) == \A i \in 1..Len(tracker.phases) : tracker.phases[i].complete

C37_Original ==
    /\ legacyTracker.currentPhaseIndex = improvedTracker.currentPhaseIndex
    /\ Len(legacyTracker.phases) = Len(improvedTracker.phases)
    /\ TrackerHasNextPhase(legacyTracker) = TrackerHasNextPhase(improvedTracker)
    /\ TrackerAllPhasesCompleted(legacyTracker) = TrackerAllPhasesCompleted(improvedTracker)

(***************************************************************************)
(* C38: the lock file of createSnapshot prevents races between concurrent  *)
(* callers: at most one caller writes the snapshot file, the lock file     *)
(* exists as long as a caller that wrote it has not reached its release,   *)
(* and an existing snapshot is never written over.                         *)
(***************************************************************************)
C38_Original ==
    /\ Cardinality(snapshotLog.writers) <= 1
    /\ \A c \in 1..MaxCallers :
          callers[c].pc \in {"read", "write", "chmod", "release"} => snapshotFs.lock
    /\ ~snapshotLog.overwritten

(***************************************************************************)
(* C39: no Pending phase is stranded behind the cursor: every Pending      *)
(* PhaseState but the synthetic plan phase is under the cursor or after    *)
(* it.                                                                     *)
(***************************************************************************)
C39_Original ==
    \A i \in 2..Len(phaseStates) : phaseStates[i].status = Pending => i >= Cur

(***************************************************************************)
(* C40: at most one PhaseState of the tracker is InProgress at any time.   *)
(***************************************************************************)
C40_Original ==
    Cardinality({i \in 1..Len(phaseStates) : phaseStates[i].status = InProgress}) <= 1

====
